---- MODULE Spec2Model ----
(***************************************************************************)
(* Glog file reader (gloger_android, Rust).                                *)
(*                                                                         *)
(* The model covers the dispatcher (glog.rs: open_internal), the framing   *)
(* primitives and the stateful inflater wrapper (reader/mod.rs), and the   *)
(* V3 and V4 entry readers (reader/v3.rs, reader/v4.rs).                   *)
(*                                                                         *)
(* A file is a sequence of bytes 0..255.  The reader owns a stream over    *)
(* that file (its offset is `off`), a position counter, an inflater and,   *)
(* in V4, the private key and the shared-key cache.  The caller owns the   *)
(* out buffer.  One action models one call: Open is open_with_key, Read    *)
(* is GlogReader::read.                                                    *)
(*                                                                         *)
(* Three libraries are outside the repository: flate2 (raw deflate), k256  *)
(* (secp256k1) and aes/cfb-mode.  Each is modelled by a small codec with   *)
(* the same interface and the same kind of state: an LZ77 token stream     *)
(* with a sliding window, a point-validity test with an x-only shared      *)
(* secret, and a byte-wise CFB stream cipher.                              *)
(***************************************************************************)
EXTENDS Integers, Sequences, FiniteSets, TLC

(***************************************************************************)
(* Program constants                                                       *)
(***************************************************************************)

\* reader/mod.rs:28  SINGLE_LOG_CONTENT_MAX_LENGTH = 16 * 1024
SINGLE_LOG_CONTENT_MAX_LENGTH == 16 * 1024

\* reader/mod.rs:32
MAGIC_NUMBER == <<27, 173, 192, 222>>

\* reader/mod.rs:36
SYNC_MARKER == <<183, 219, 231, 219, 128, 173, 217, 87>>

\* version.rs:21, version.rs:26
GLOG_RECOVERY_VERSION == 3

GLOG_CIPHER_VERSION == 4

\* main.rs:36  SVR_PRIV_KEY, as hex digits
SVR_PRIV_KEY ==
  << 1,12, 7,4, 11,6, 6,15, 12,11, 1,12, 5,4, 15,13,
     4,3, 8,6, 1,7, 3,12, 15,10, 15,3, 11,12, 5,3,
     12,8, 13,15, 6,11, 8,9, 15,7, 9,9, 13,14, 1,10,
     1,14, 7,12, 14,11, 11,12, 4,3, 12,11, 15,13, 3,8 >>

(***************************************************************************)
(* Bounds of the model                                                     *)
(***************************************************************************)

\* entries written to a file
MaxEntries == 3

\* calls to read after a successful open
MaxReads == 5

\* length of the proto name in the header
MaxNameLen == 1

\* bytes cut from the end of a file (a truncated file)
MaxCut == 1

\* calls of StatefulInflater::decompress on an inflater of its own
MaxCalls == 3

\* the bytes read_safely is asked for, on its own
MaxExpected == 3

\* turns of the loop of read_logs
MaxLoops == 32

\* files of the directory main collects its files from
MaxFiles == 3

\* bytes kept of the buffer of read_logs
LogBufLen == 16

\* the window of the modelled LZ77 codec (flate2's is 32 KiB)
WindowSize == 2

\* what one token of the modelled codec can write at most (deflate's best
\* ratio is 1032 bytes out for one byte in)
RunLen == 1032

(***************************************************************************)
(* Sequences of bytes                                                      *)
(***************************************************************************)

Byte == 0..255

Min(a, b) == IF a < b THEN a ELSE b

Max(a, b) == IF a < b THEN b ELSE a

Take(s, n) == SubSeq(s, 1, Min(n, Len(s)))

Drop(s, n) == SubSeq(s, n + 1, Len(s))

Last(s, n) == SubSeq(s, Max(1, Len(s) - n + 1), Len(s))

Rep(b, n) == [i \in 1..n |-> b]

\* slice.copy_from_slice: dst[..Len(src)] = src, the rest of dst untouched
CopyInto(dst, src) ==
  [i \in 1..Len(dst) |-> IF i <= Len(src) THEN src[i] ELSE dst[i]]

\* Fault: the two bytes taken big-endian.
U16LE_swapped(b) == 256 * b[1] + b[2]

\* u16::from_le_bytes
U16LE(b) == b[1] + 256 * b[2]

\* the inverse, used when a file is written
LE16(n) == << n % 256, (n \div 256) % 256 >>

(***************************************************************************)
(* Framing primitives (reader/mod.rs)                                      *)
(***************************************************************************)

\* Read::read on a stream that stands at offset off of file f and gives at
\* most chunk bytes a call, into a slice of want bytes: the bytes it gives
StreamRead(f, off, want, chunk) ==
  SubSeq(f, off + 1, off + Min(chunk, Min(Len(f) - off, want)))

\* filled[at..at + Len(src)] = src
WriteAt(filled, at, src) ==
  [i \in 1..Len(filled) |->
     IF at < i /\ i <= at + Len(src) THEN src[i - at] ELSE filled[i]]

\* read_safely, the loop as it is written: every read of the stream goes
\* into filled[total_read..expected]
RECURSIVE read_safely_loop(_, _, _, _, _, _)
read_safely_loop(f, off, expected, filled, total_read, chunk) ==
  IF total_read >= expected
  THEN [ok |-> TRUE, n |-> total_read, off |-> off, filled |-> filled,
        expected |-> expected, available |-> total_read]
  ELSE IF StreamRead(f, off, expected - total_read, chunk) = <<>>
  THEN [ok |-> FALSE, n |-> 0, off |-> off, filled |-> filled,
        expected |-> expected, available |-> total_read]
  ELSE read_safely_loop(
         f, off + Len(StreamRead(f, off, expected - total_read, chunk)), expected,
         WriteAt(filled, total_read, StreamRead(f, off, expected - total_read, chunk)),
         total_read + Len(StreamRead(f, off, expected - total_read, chunk)), chunk)

\* read_safely over a stream that stands at offset off of file f: the n
\* bytes, or UnexpectedEof with the bytes the stream still had (all of
\* them consumed by then).  Err(Io) is left out: the stream is a file.
read_safely(f, off, n) ==
  IF Len(f) - off >= n
  THEN [ok |-> TRUE, data |-> SubSeq(f, off + 1, off + n),
        off |-> off + n, expected |-> n, available |-> n]
  ELSE [ok |-> FALSE, data |-> <<>>,
        off |-> Len(f), expected |-> n, available |-> Len(f) - off]

\* u16::from_le_bytes on what read_safely returned
U16Of(r) ==
  [ok |-> r.ok, val |-> IF r.ok THEN U16LE(r.data) ELSE 0,
   off |-> r.off, expected |-> r.expected, available |-> r.available]

\* read_u16_le
read_u16_le(f, off) == U16Of(read_safely(f, off, 2))

(***************************************************************************)
(* flate2::Decompress, raw deflate, as an LZ77 token stream.               *)
(* One input byte is one token:                                            *)
(*   0..127             a literal, emits itself                            *)
(*   FlushTok           the empty block of a sync flush, emits nothing     *)
(*   FlushTok+d         d in 1..WindowSize: emits the byte d back          *)
(*   RunTok             RunLen copies of the last byte written             *)
(*   anything else      an invalid code: a data error                      *)
(* The state is the window (the last WindowSize bytes written) and the     *)
(* bytes of a match still to write.  A token that has to write stops the   *)
(* call when the output is full and is left unconsumed; a data error       *)
(* puts the stream in a failed state for good.                             *)
(***************************************************************************)

FlushTok == 128

RunTok == 240

BadTok == 255

\* what a call of the loop returns
InflateStop(ok, pending, consumed, window, produced) ==
  [ok |-> ok, window |-> window, pending |-> pending,
   consumed |-> consumed, produced |-> produced]

\* the window after k more copies of byte b
AfterRun(window, b, k) == Last(window \o Rep(b, Min(k, WindowSize)), WindowSize)

RECURSIVE InflateLoop(_, _, _, _, _)
InflateLoop(window, in, i, room, acc) ==
  IF i > Len(in) THEN InflateStop(TRUE, 0, i - 1, window, acc)
  ELSE IF in[i] < FlushTok
  THEN IF room = 0 THEN InflateStop(TRUE, 0, i - 1, window, acc)
       ELSE InflateLoop(Last(Append(window, in[i]), WindowSize), in, i + 1,
                        room - 1, Append(acc, in[i]))
  ELSE IF in[i] = FlushTok
  THEN InflateLoop(window, in, i + 1, room, acc)
  ELSE IF in[i] <= FlushTok + WindowSize
  THEN IF in[i] - FlushTok > Len(window) THEN InflateStop(FALSE, 0, i - 1, window, acc)
       ELSE IF room = 0 THEN InflateStop(TRUE, 0, i - 1, window, acc)
       ELSE InflateLoop(Last(Append(window, window[Len(window) - (in[i] - FlushTok) + 1]),
                             WindowSize),
                        in, i + 1, room - 1,
                        Append(acc, window[Len(window) - (in[i] - FlushTok) + 1]))
  ELSE IF in[i] = RunTok
  THEN IF Len(window) = 0 THEN InflateStop(FALSE, 0, i - 1, window, acc)
       ELSE IF room = 0 THEN InflateStop(TRUE, 0, i - 1, window, acc)
       ELSE IF room < RunLen
       THEN InflateStop(TRUE, RunLen - room, i,
                        AfterRun(window, window[Len(window)], room),
                        acc \o Rep(window[Len(window)], room))
       ELSE InflateLoop(AfterRun(window, window[Len(window)], RunLen), in, i + 1,
                        room - RunLen, acc \o Rep(window[Len(window)], RunLen))
  ELSE InflateStop(FALSE, 0, i - 1, window, acc)

\* Decompress::new(false)
NewDecompress == [window |-> <<>>, pending |-> 0, failed |-> FALSE]

\* the state and the counts of a call that ran the loop
Flate2Result(r) ==
  [ok |-> r.ok,
   d |-> [window |-> r.window, pending |-> r.pending, failed |-> ~r.ok],
   consumed |-> r.consumed, produced |-> r.produced]

\* Decompress::decompress(in_buf, out_buf, FlushDecompress::Sync): first
\* what is left of a run that did not fit the last time, then the input
Flate2Decompress(d, in, room) ==
  IF d.failed
  THEN [ok |-> FALSE, d |-> d, consumed |-> 0, produced |-> <<>>]
  ELSE IF d.pending = 0
  THEN Flate2Result(InflateLoop(d.window, in, 1, room, <<>>))
  ELSE IF room < d.pending
  THEN [ok |-> TRUE,
        d |-> [d EXCEPT !.pending = @ - room,
                        !.window = AfterRun(@, @[Len(@)], room)],
        consumed |-> 0, produced |-> Rep(d.window[Len(d.window)], room)]
  ELSE Flate2Result(InflateLoop(AfterRun(d.window, d.window[Len(d.window)], d.pending),
                                in, 1, room - d.pending,
                                Rep(d.window[Len(d.window)], d.pending)))

(***************************************************************************)
(* StatefulInflater (reader/mod.rs)                                        *)
(***************************************************************************)

\* StatefulInflater::new
StatefulInflaterNew ==
  [decompressor |-> NewDecompress, total_in |-> 0, total_out |-> 0]

\* Fault: the two totals take each other's increment.
InflaterAccount_swapped(inf, r) ==
  IF r.ok
  THEN [ok |-> TRUE,
        inf |-> [decompressor |-> r.d,
                 total_in  |-> inf.total_in + Len(r.produced),
                 total_out |-> inf.total_out + r.consumed],
        consumed |-> r.consumed, produced |-> Len(r.produced), written |-> r.produced]
  ELSE [ok |-> FALSE,
        inf |-> [inf EXCEPT !.decompressor = r.d],
        consumed |-> r.consumed, produced |-> 0, written |-> r.produced]

\* the lines of decompress after the call to the library
InflaterAccount(inf, r) ==
  IF r.ok
  THEN [ok |-> TRUE,
        inf |-> [decompressor |-> r.d,
                 total_in  |-> inf.total_in + r.consumed,
                 total_out |-> inf.total_out + Len(r.produced)],
        consumed |-> r.consumed, produced |-> Len(r.produced), written |-> r.produced]
  ELSE [ok |-> FALSE,
        inf |-> [inf EXCEPT !.decompressor = r.d],
        consumed |-> r.consumed, produced |-> 0, written |-> r.produced]

\* Fault: total_in grows by the length of the input, consumed or not.
InflaterDecompress_whole(inf, in, room) ==
  IF InflaterAccount(inf, Flate2Decompress(inf.decompressor, in, room)).ok
  THEN [InflaterAccount(inf, Flate2Decompress(inf.decompressor, in, room))
          EXCEPT !.inf.total_in = inf.total_in + Len(in)]
  ELSE InflaterAccount(inf, Flate2Decompress(inf.decompressor, in, room))

\* StatefulInflater::decompress: Ok(produced), or DecompressError, in
\* which case total_in and total_out keep their values.  written is what
\* the library put in out_buf, in either case.
InflaterDecompress(inf, in, room) ==
  InflaterAccount(inf, Flate2Decompress(inf.decompressor, in, room))

(***************************************************************************)
(* Keys and the cipher (reader/v4.rs, over hex, k256 and aes/cfb-mode).    *)
(* A key string is a sequence of hex digits 0..15; NotHex stands for any   *)
(* other character.                                                        *)
(***************************************************************************)

NotHex == 16

None == [some |-> FALSE, val |-> <<>>]

Some(v) == [some |-> TRUE, val |-> v]

\* hex::decode
HexDecode(chars) ==
  IF Len(chars) % 2 # 0 \/ \E i \in 1..Len(chars) : chars[i] = NotHex
  THEN [ok |-> FALSE, bytes |-> <<>>]
  ELSE [ok |-> TRUE,
        bytes |-> [i \in 1..(Len(chars) \div 2) |-> 16 * chars[2 * i - 1] + chars[2 * i]]]

\* SecretKey::from_slice on what hex::decode returned: 32 bytes, not zero
SecretKeyFromSlice(h) ==
  IF ~h.ok THEN [ok |-> FALSE, err |-> "HexError", key |-> <<>>]
  ELSE IF Len(h.bytes) # 32 \/ \A i \in 1..Len(h.bytes) : h.bytes[i] = 0
  THEN [ok |-> FALSE, err |-> "EllipticCurveError", key |-> <<>>]
  ELSE [ok |-> TRUE, err |-> "", key |-> h.bytes]

\* prepare_svr_pri_key
prepare_svr_pri_key(chars) == SecretKeyFromSlice(HexDecode(chars))

\* k256: whether x is the abscissa of a point of the curve.  About half of
\* the field is; here, the even last bytes.
OnCurve(x) == x[32] % 2 = 0

\* decompress_public_key followed by prepare_client_pub_key, on the 33
\* bytes of the file: the SEC1 tag is 2 or 3 and the point is on the curve
ClientPubKeyOk(pub) ==
  /\ Len(pub) = 33
  /\ pub[1] \in {2, 3}
  /\ OnCurve(Drop(pub, 1))

\* k256::ecdh::diffie_hellman(..).raw_secret_bytes(): the abscissa of
\* priv * P, which is the same for P and -P (tags 2 and 3)
DiffieHellman(priv, pub) ==
  [i \in 1..32 |-> (priv[i] + 3 * pub[i + 1] + i) % 256]

\* Fault: the cache is written and never looked up.
get_shared_key_uncached(rd, pub) ==
  IF ~rd.svr_ec_pri_key.some
  THEN [ok |-> FALSE, key |-> <<>>, rd |-> rd, derived |-> FALSE]
  ELSE IF ~ClientPubKeyOk(pub)
  THEN [ok |-> FALSE, key |-> <<>>, rd |-> rd, derived |-> FALSE]
  ELSE [ok |-> TRUE, key |-> DiffieHellman(rd.svr_ec_pri_key.val, pub),
        rd |-> [rd EXCEPT !.shared_key_cache =
                            (pub :> DiffieHellman(rd.svr_ec_pri_key.val, pub)) @@ @],
        derived |-> TRUE]

\* Fault: a derived secret takes the place of the cache.
get_shared_key_single(rd, pub) ==
  IF pub \in DOMAIN rd.shared_key_cache
  THEN [ok |-> TRUE, key |-> rd.shared_key_cache[pub], rd |-> rd, derived |-> FALSE]
  ELSE IF ~rd.svr_ec_pri_key.some
  THEN [ok |-> FALSE, key |-> <<>>, rd |-> rd, derived |-> FALSE]
  ELSE IF ~ClientPubKeyOk(pub)
  THEN [ok |-> FALSE, key |-> <<>>, rd |-> rd, derived |-> FALSE]
  ELSE [ok |-> TRUE, key |-> DiffieHellman(rd.svr_ec_pri_key.val, pub),
        rd |-> [rd EXCEPT !.shared_key_cache =
                            (pub :> DiffieHellman(rd.svr_ec_pri_key.val, pub))],
        derived |-> TRUE]

\* Fault: the secret is cached before the point is checked.
get_shared_key_early(rd, pub) ==
  IF pub \in DOMAIN rd.shared_key_cache
  THEN [ok |-> TRUE, key |-> rd.shared_key_cache[pub], rd |-> rd, derived |-> FALSE]
  ELSE IF ~rd.svr_ec_pri_key.some
  THEN [ok |-> FALSE, key |-> <<>>, rd |-> rd, derived |-> FALSE]
  ELSE IF ~ClientPubKeyOk(pub)
  THEN [ok |-> FALSE, key |-> <<>>,
        rd |-> [rd EXCEPT !.shared_key_cache =
                            (pub :> DiffieHellman(rd.svr_ec_pri_key.val, pub)) @@ @],
        derived |-> FALSE]
  ELSE [ok |-> TRUE, key |-> DiffieHellman(rd.svr_ec_pri_key.val, pub),
        rd |-> [rd EXCEPT !.shared_key_cache =
                            (pub :> DiffieHellman(rd.svr_ec_pri_key.val, pub)) @@ @],
        derived |-> TRUE]

\* get_shared_key_cached: the cached secret, else the derived one, cached
get_shared_key_cached(rd, pub) ==
  IF pub \in DOMAIN rd.shared_key_cache
  THEN [ok |-> TRUE, key |-> rd.shared_key_cache[pub], rd |-> rd, derived |-> FALSE]
  ELSE IF ~rd.svr_ec_pri_key.some
  THEN [ok |-> FALSE, key |-> <<>>, rd |-> rd, derived |-> FALSE]
  ELSE IF ~ClientPubKeyOk(pub)
  THEN [ok |-> FALSE, key |-> <<>>, rd |-> rd, derived |-> FALSE]
  ELSE [ok |-> TRUE, key |-> DiffieHellman(rd.svr_ec_pri_key.val, pub),
        rd |-> [rd EXCEPT !.shared_key_cache =
                            (pub :> DiffieHellman(rd.svr_ec_pri_key.val, pub)) @@ @],
        derived |-> TRUE]

\* cfb_mode::Decryptor<Aes128>: byte i of a block is the ciphertext byte
\* less the cipher of the block before it (the IV for the first block)
CfbKeystream(key, iv, ct, i) ==
  (key[((i - 1) % 16) + 1] + (IF i <= 16 THEN iv[i] ELSE ct[i - 16])) % 256

CfbDecrypt(key, iv, ct) ==
  [i \in 1..Len(ct) |-> (ct[i] + 256 - CfbKeystream(key, iv, ct, i)) % 256]

\* the lines of decrypt after get_shared_key_cached
DecryptWith(k, iv, encrypt) ==
  IF ~k.ok \/ Len(k.key) < 16 \/ Len(iv) # 16
  THEN [ok |-> FALSE, plain |-> <<>>, rd |-> k.rd, derived |-> k.derived]
  ELSE [ok |-> TRUE, plain |-> CfbDecrypt(Take(k.key, 16), iv, encrypt),
        rd |-> k.rd, derived |-> k.derived]

\* FileReaderV4::decrypt
decrypt(rd, pub, iv, encrypt) ==
  DecryptWith(get_shared_key_cached(rd, pub), iv, encrypt)

(***************************************************************************)
(* Results (error.rs)                                                      *)
(***************************************************************************)

Result(kind, n, code, err, expected, available) ==
  [kind |-> kind, n |-> n, code |-> code, err |-> err,
   expected |-> expected, available |-> available]

NoResult == Result("none", 0, 0, "", 0, 0)

\* Ok(()) of read_remain_header, Ok(reader) of open
Ok == Result("Ok", 0, 0, "", 0, 0)

Success(n) == Result("Success", n, 0, "", 0, 0)

Eof == Result("Eof", 0, 0, "", 0, 0)

NeedRecover(code) == Result("NeedRecover", 0, code, "", 0, 0)

Err(e) == Result("Err", 0, 0, e, 0, 0)

\* GlogError::UnsupportedVersion(v), IllegalCompressMode(v), ...
ErrOf(e, v) == Result("Err", v, 0, e, 0, 0)

UnexpectedEof(expected, available) ==
  Result("Err", 0, 0, "UnexpectedEof", expected, available)

(***************************************************************************)
(* The readers.  A reader is a record; the stream it owns is the file and  *)
(* the offset off of the next unread byte.  Every operation returns an     *)
(* outcome: the result, the reader, the offset and the out buffer after    *)
(* the call, the input it fed to the inflater (fed: none or one, with      *)
(* whether the inflater accepted it and how much of it the inflater        *)
(* consumed) and the 8 bytes it took as the entry's sync marker (sync).    *)
(***************************************************************************)

EmptyCache == [k \in {} |-> <<>>]

Outcome(res, rd, off, out, fed, sync) ==
  [res |-> res, rd |-> rd, off |-> off, out |-> out, fed |-> fed, sync |-> sync]

\* FileReader::space_left (the same in v3.rs and v4.rs)
space_left(rd) == IF rd.size <= rd.position THEN 0 ELSE rd.size - rd.position

\* FileReaderV3::from_reader
V3_from_reader(size) ==
  [version |-> GLOG_RECOVERY_VERSION,
   compress_mode |-> "None", encrypt_mode |-> "None",
   position |-> 5, size |-> size,
   inflater |-> StatefulInflaterNew,
   svr_pri_key |-> None, svr_ec_pri_key |-> None,
   shared_key_cache |-> EmptyCache]

\* FileReaderV4::from_reader from the prepared key on
V4_with_key(size, key, k) ==
  IF key.some /\ ~k.ok
  THEN [ok |-> FALSE, err |-> k.err, rd |-> V3_from_reader(size)]
  ELSE [ok |-> TRUE, err |-> "",
        rd |-> [version |-> GLOG_CIPHER_VERSION,
                compress_mode |-> "None", encrypt_mode |-> "None",
                position |-> 5, size |-> size,
                inflater |-> StatefulInflaterNew,
                svr_pri_key |-> key,
                svr_ec_pri_key |-> IF key.some THEN Some(k.key) ELSE None,
                shared_key_cache |-> EmptyCache]]

\* FileReaderV4::from_reader: Ok(reader), or the error of the key
V4_from_reader(size, key) == V4_with_key(size, key, prepare_svr_pri_key(key.val))

\* FileReaderV3::log_store_size
V3_log_store_size(len) == 2 + len + 8

\* self.position += n
Advance(rd, n) == [rd EXCEPT !.position = @ + n]

\* the outcome of a call that read nothing more than r and failed on it
EofAt(r, rd, out) ==
  Outcome(UnexpectedEof(r.expected, r.available), rd, r.off, out, <<>>, <<>>)

\* Fault: the last byte of the header's sync marker is not compared.
HeaderSync_first7(rd, sync, position) ==
  IF ~sync.ok
  THEN [res |-> UnexpectedEof(sync.expected, sync.available), rd |-> rd, off |-> sync.off]
  ELSE IF Take(sync.data, 7) # Take(SYNC_MARKER, 7)
  THEN [res |-> Err("SyncMarkerMismatch"), rd |-> rd, off |-> sync.off]
  ELSE [res |-> Ok, rd |-> [rd EXCEPT !.position = position], off |-> sync.off]

HeaderSync_added(rd, sync, position) ==
  IF ~sync.ok
  THEN [res |-> UnexpectedEof(sync.expected, sync.available), rd |-> rd, off |-> sync.off]
  ELSE IF sync.data # SYNC_MARKER
  THEN [res |-> Err("SyncMarkerMismatch"), rd |-> rd, off |-> sync.off]
  ELSE [res |-> Ok, rd |-> [rd EXCEPT !.position = @ + position], off |-> sync.off]

\* the end of a header: the sync marker, checked, then the position
HeaderSync(rd, sync, position) ==
  IF ~sync.ok
  THEN [res |-> UnexpectedEof(sync.expected, sync.available), rd |-> rd, off |-> sync.off]
  ELSE IF sync.data # SYNC_MARKER
  THEN [res |-> Err("SyncMarkerMismatch"), rd |-> rd, off |-> sync.off]
  ELSE [res |-> Ok, rd |-> [rd EXCEPT !.position = position], off |-> sync.off]

\* a header from the proto name on
HeaderName(rd, f, name, position) ==
  IF ~name.ok
  THEN [res |-> UnexpectedEof(name.expected, name.available), rd |-> rd, off |-> name.off]
  ELSE HeaderSync(rd, read_safely(f, name.off, 8), position)

\* FileReaderV3::read_remain_header from the proto name length on
V3_header_len(rd, f, len) ==
  IF ~len.ok
  THEN [res |-> UnexpectedEof(len.expected, len.available), rd |-> rd, off |-> len.off]
  ELSE IF space_left(rd) < len.val + 8
  THEN [res |-> UnexpectedEof(len.val + 8, space_left(rd)), rd |-> rd, off |-> len.off]
  ELSE HeaderName(rd, f, read_safely(f, len.off, len.val), 4 + 1 + 1 + 2 + len.val + 8)

\* Fault: the encryption nibble is checked before the compression nibble.
V3_header_mode_swapped(rd, f, ms) ==
  IF ~ms.ok
  THEN [res |-> UnexpectedEof(ms.expected, ms.available), rd |-> rd, off |-> ms.off]
  ELSE IF ms.data[1] % 16 \notin {0, 1}
  THEN [res |-> ErrOf("IllegalEncryptMode", ms.data[1] % 16), rd |-> rd, off |-> ms.off]
  ELSE IF ms.data[1] \div 16 \notin {0, 1}
  THEN [res |-> ErrOf("IllegalCompressMode", ms.data[1] \div 16), rd |-> rd, off |-> ms.off]
  ELSE V3_header_len(
         [rd EXCEPT !.compress_mode = IF ms.data[1] \div 16 = 0 THEN "None" ELSE "Zlib",
                    !.encrypt_mode  = IF ms.data[1] % 16 = 0 THEN "None" ELSE "Aes"],
         f, read_u16_le(f, ms.off))

\* FileReaderV3::read_remain_header from the mode byte on
V3_header_mode(rd, f, ms) ==
  IF ~ms.ok
  THEN [res |-> UnexpectedEof(ms.expected, ms.available), rd |-> rd, off |-> ms.off]
  ELSE IF ms.data[1] \div 16 \notin {0, 1}
  THEN [res |-> ErrOf("IllegalCompressMode", ms.data[1] \div 16), rd |-> rd, off |-> ms.off]
  ELSE IF ms.data[1] % 16 \notin {0, 1}
  THEN [res |-> ErrOf("IllegalEncryptMode", ms.data[1] % 16), rd |-> rd, off |-> ms.off]
  ELSE V3_header_len(
         [rd EXCEPT !.compress_mode = IF ms.data[1] \div 16 = 0 THEN "None" ELSE "Zlib",
                    !.encrypt_mode  = IF ms.data[1] % 16 = 0 THEN "None" ELSE "Aes"],
         f, read_u16_le(f, ms.off))

\* FileReaderV3::read_remain_header
V3_read_remain_header(rd, f, off) == V3_header_mode(rd, f, read_safely(f, off, 1))

\* FileReaderV4::read_remain_header from the proto name length on
V4_header_len(rd, f, len) ==
  IF ~len.ok
  THEN [res |-> UnexpectedEof(len.expected, len.available), rd |-> rd, off |-> len.off]
  ELSE HeaderName(rd, f, read_safely(f, len.off, len.val), 4 + 1 + 2 + len.val + 8)

\* FileReaderV4::read_remain_header
V4_read_remain_header(rd, f, off) == V4_header_len(rd, f, read_u16_le(f, off))

\* the arm CompressMode::Zlib of read: what the inflater made of m
Inflated(rd, m, out, z) ==
  [ok |-> z.ok, final_length |-> z.produced,
   rd |-> [rd EXCEPT !.inflater = z.inf],
   out |-> CopyInto(out, z.written),
   fed |-> <<[in |-> m, ok |-> z.ok, consumed |-> z.consumed]>>]

\* Fault: the copy of an entry that is not compressed reports the length of
\* the payload, not of what was copied.
Unpack_unclamped(rd, m, out, compress_mode) ==
  IF compress_mode = "Zlib"
  THEN Inflated(rd, m, out, InflaterDecompress(rd.inflater, m, Len(out)))
  ELSE [ok |-> TRUE, final_length |-> Len(m), rd |-> rd,
        out |-> CopyInto(out, Take(m, Min(Len(m), Len(out)))), fed |-> <<>>]

\* Fault: an entry that is not compressed resets the inflater.
Unpack_reset(rd, m, out, compress_mode) ==
  IF compress_mode = "Zlib"
  THEN Inflated(rd, m, out, InflaterDecompress(rd.inflater, m, Len(out)))
  ELSE [ok |-> TRUE, final_length |-> Min(Len(m), Len(out)),
        rd |-> [rd EXCEPT !.inflater = StatefulInflaterNew],
        out |-> CopyInto(out, Take(m, Min(Len(m), Len(out)))), fed |-> <<>>]

\* Fault: every compressed entry is inflated by an inflater of its own.
Unpack_fresh(rd, m, out, compress_mode) ==
  IF compress_mode = "Zlib"
  THEN Inflated(rd, m, out, InflaterDecompress(StatefulInflaterNew, m, Len(out)))
  ELSE [ok |-> TRUE, final_length |-> Min(Len(m), Len(out)), rd |-> rd,
        out |-> CopyInto(out, Take(m, Min(Len(m), Len(out)))), fed |-> <<>>]

\* the match on compress_mode that ends both branches of read: inflate
\* into out, or copy what fits
Unpack(rd, m, out, compress_mode) ==
  IF compress_mode = "Zlib"
  THEN Inflated(rd, m, out, InflaterDecompress(rd.inflater, m, Len(out)))
  ELSE [ok |-> TRUE, final_length |-> Min(Len(m), Len(out)), rd |-> rd,
        out |-> CopyInto(out, Take(m, Min(Len(m), Len(out)))), fed |-> <<>>]

\* Fault: the last byte of the sync marker is not compared.
CheckSync_first7(u, sync, code) ==
  IF ~sync.ok
  THEN Outcome(UnexpectedEof(sync.expected, sync.available), u.rd, sync.off, u.out, u.fed, <<>>)
  ELSE IF Take(sync.data, 7) # Take(SYNC_MARKER, 7)
  THEN Outcome(NeedRecover(code), u.rd, sync.off, u.out, u.fed, sync.data)
  ELSE Outcome(Success(u.final_length), Advance(u.rd, 8), sync.off, u.out, u.fed, sync.data)

\* the end of read: the sync marker, checked, then position += 8
CheckSync(u, sync, code) ==
  IF ~sync.ok
  THEN Outcome(UnexpectedEof(sync.expected, sync.available), u.rd, sync.off, u.out, u.fed, <<>>)
  ELSE IF sync.data # SYNC_MARKER
  THEN Outcome(NeedRecover(code), u.rd, sync.off, u.out, u.fed, sync.data)
  ELSE Outcome(Success(u.final_length), Advance(u.rd, 8), sync.off, u.out, u.fed, sync.data)

\* Fault: a failure of the inflater is reported as a recoverable one.
Finish_recover(u, f, off, code) ==
  IF ~u.ok
  THEN Outcome(NeedRecover(code), u.rd, off, u.out, u.fed, <<>>)
  ELSE CheckSync(u, read_safely(f, off, 8), code)

\* read from the unpacked payload on; code is the recover code of a sync
\* marker mismatch
Finish(u, f, off, code) ==
  IF ~u.ok
  THEN Outcome(Err("DecompressError"), u.rd, off, u.out, u.fed, <<>>)
  ELSE CheckSync(u, read_safely(f, off, 8), code)

\* FileReaderV3::read from the log data on
V3_read_data(rd, f, out, buf) ==
  IF ~buf.ok THEN EofAt(buf, rd, out)
  ELSE Finish(Unpack(Advance(rd, Len(buf.data)), buf.data, out, rd.compress_mode),
              f, buf.off, -3)

\* FileReaderV3::read from the log length on
V3_read_len(rd, f, out, len) ==
  IF ~len.ok THEN EofAt(len, rd, out)
  ELSE IF space_left(Advance(rd, 2)) < len.val + 8
  THEN Outcome(UnexpectedEof(len.val + 8, space_left(Advance(rd, 2))),
               Advance(rd, 2), len.off, out, <<>>, <<>>)
  ELSE IF len.val = 0 \/ len.val > SINGLE_LOG_CONTENT_MAX_LENGTH
  THEN Outcome(NeedRecover(-2), Advance(rd, 2), len.off, out, <<>>, <<>>)
  ELSE V3_read_data(Advance(rd, 2), f, out, read_safely(f, len.off, len.val))

\* FileReaderV3::read
V3_read(rd, f, off, out) ==
  IF space_left(rd) < V3_log_store_size(1)
  THEN Outcome(Eof, rd, off, out, <<>>, <<>>)
  ELSE V3_read_len(rd, f, out, read_u16_le(f, off))

\* Fault: the error of decrypt is returned as it is.
V4_aes_plain_err(f, off, out, compress_mode, p) ==
  IF ~p.ok
  THEN Outcome(Err("DecryptError"), p.rd, off, out, <<>>, <<>>)
  ELSE Finish(Unpack(p.rd, p.plain, out, compress_mode), f, off, -7)

\* Fault: when decrypt fails the sync marker of the entry is taken from the
\* stream.
V4_aes_plain_marker(f, off, out, compress_mode, p) ==
  IF ~p.ok
  THEN Outcome(NeedRecover(-5), p.rd, off + 8, out, <<>>, <<>>)
  ELSE Finish(Unpack(p.rd, p.plain, out, compress_mode), f, off, -7)

\* FileReaderV4::read, encrypted entry, from the decrypted data on
V4_aes_plain(f, off, out, compress_mode, p) ==
  IF ~p.ok
  THEN Outcome(NeedRecover(-5), p.rd, off, out, <<>>, <<>>)
  ELSE Finish(Unpack(p.rd, p.plain, out, compress_mode), f, off, -7)

\* Fault: a compressed entry goes to the inflater as it was read, before
\* it is decrypted.
V4_aes_data_inflate_first(rd, f, out, compress_mode, iv, pub, buf) ==
  IF ~buf.ok THEN EofAt(buf, rd, out)
  ELSE V4_aes_plain(f, buf.off, out, compress_mode,
                    [decrypt(rd, pub.data, iv.data, buf.data)
                       EXCEPT !.plain = IF compress_mode = "Zlib" THEN buf.data ELSE @])

\* Fault: the data is unpacked as read, the shared key is derived but the
\* plaintext is dropped.
V4_aes_data_raw(rd, f, out, compress_mode, iv, pub, buf) ==
  IF ~buf.ok THEN EofAt(buf, rd, out)
  ELSE V4_aes_plain(f, buf.off, out, compress_mode,
                    [decrypt(rd, pub.data, iv.data, buf.data) EXCEPT !.plain = buf.data])

\* FileReaderV4::read, encrypted entry, from the log data on
V4_aes_data(rd, f, out, compress_mode, iv, pub, buf) ==
  IF ~buf.ok THEN EofAt(buf, rd, out)
  ELSE V4_aes_plain(f, buf.off, out, compress_mode, decrypt(rd, pub.data, iv.data, buf.data))

\* Fault: the length is validated after the data has been read.
V4_aes_len_late(rd, f, out, compress_mode, iv, pub, len) ==
  IF ~len.ok THEN EofAt(len, rd, out)
  ELSE IF ~read_safely(f, len.off, len.val).ok
  THEN EofAt(read_safely(f, len.off, len.val), Advance(rd, 2 + len.val), out)
  ELSE IF len.val = 0 \/ len.val > SINGLE_LOG_CONTENT_MAX_LENGTH
  THEN Outcome(NeedRecover(-4), rd, read_safely(f, len.off, len.val).off, out, <<>>, <<>>)
  ELSE V4_aes_data(Advance(rd, 2 + len.val), f, out, compress_mode, iv, pub,
                   read_safely(f, len.off, len.val))

\* FileReaderV4::read, encrypted entry, from the log length on
V4_aes_len(rd, f, out, compress_mode, iv, pub, len) ==
  IF ~len.ok THEN EofAt(len, rd, out)
  ELSE IF len.val = 0 \/ len.val > SINGLE_LOG_CONTENT_MAX_LENGTH
  THEN Outcome(NeedRecover(-4), rd, len.off, out, <<>>, <<>>)
  ELSE V4_aes_data(Advance(rd, 2 + len.val), f, out, compress_mode, iv, pub,
                   read_safely(f, len.off, len.val))

\* FileReaderV4::read, encrypted entry, from the client key on
V4_aes_pub(rd, f, out, compress_mode, iv, pub) ==
  IF ~pub.ok THEN EofAt(pub, rd, out)
  ELSE V4_aes_len(Advance(rd, 16 + 33), f, out, compress_mode, iv, pub,
                  read_u16_le(f, pub.off))

\* FileReaderV4::read, encrypted entry, from the IV on
V4_aes_iv(rd, f, out, compress_mode, iv) ==
  IF ~iv.ok THEN EofAt(iv, rd, out)
  ELSE V4_aes_pub(rd, f, out, compress_mode, iv, read_safely(f, iv.off, 33))

\* FileReaderV4::read, the branch of an encrypted entry
V4_read_aes(rd, f, off, out, compress_mode) ==
  V4_aes_iv(rd, f, out, compress_mode, read_safely(f, off, 16))

\* Fault: the recover code of the V3 reader for a sync marker mismatch.
V4_plain_data_code3(rd, f, out, compress_mode, buf) ==
  IF ~buf.ok THEN EofAt(buf, rd, out)
  ELSE Finish(Unpack(rd, buf.data, out, compress_mode), f, buf.off, -3)

\* FileReaderV4::read, entry that is not encrypted, from the log data on
V4_plain_data(rd, f, out, compress_mode, buf) ==
  IF ~buf.ok THEN EofAt(buf, rd, out)
  ELSE Finish(Unpack(rd, buf.data, out, compress_mode), f, buf.off, -7)

\* FileReaderV4::read, entry that is not encrypted, from the log length on
V4_plain_len(rd, f, out, compress_mode, len) ==
  IF ~len.ok THEN EofAt(len, rd, out)
  ELSE IF len.val = 0 \/ len.val > SINGLE_LOG_CONTENT_MAX_LENGTH
  THEN Outcome(NeedRecover(-6), rd, len.off, out, <<>>, <<>>)
  ELSE V4_plain_data(Advance(rd, 2 + len.val), f, out, compress_mode,
                     read_safely(f, len.off, len.val))

\* FileReaderV4::read, the branch of an entry that is not encrypted
V4_read_plain(rd, f, off, out, compress_mode) ==
  V4_plain_len(rd, f, out, compress_mode, read_u16_le(f, off))

\* Fault: an encrypted entry is read on when there is no key.
V4_read_mode_keyless(rd, f, out, ms) ==
  IF ~ms.ok THEN EofAt(ms, rd, out)
  ELSE IF ms.data[1] \div 16 \notin {1, 2}
  THEN Outcome(NeedRecover(-2), rd, ms.off, out, <<>>, <<>>)
  ELSE IF ms.data[1] % 16 \notin {1, 2}
  THEN Outcome(NeedRecover(-3), rd, ms.off, out, <<>>, <<>>)
  ELSE IF ms.data[1] % 16 = 2
  THEN V4_read_aes(Advance(rd, 1), f, ms.off, out,
                   IF ms.data[1] \div 16 = 1 THEN "None" ELSE "Zlib")
  ELSE V4_read_plain(Advance(rd, 1), f, ms.off, out,
                     IF ms.data[1] \div 16 = 1 THEN "None" ELSE "Zlib")

\* Fault: the encryption nibble is checked before the compression nibble.
V4_read_mode_swapped(rd, f, out, ms) ==
  IF ~ms.ok THEN EofAt(ms, rd, out)
  ELSE IF ms.data[1] % 16 \notin {1, 2}
  THEN Outcome(NeedRecover(-3), rd, ms.off, out, <<>>, <<>>)
  ELSE IF ms.data[1] \div 16 \notin {1, 2}
  THEN Outcome(NeedRecover(-2), rd, ms.off, out, <<>>, <<>>)
  ELSE IF ms.data[1] % 16 = 2 /\ ~rd.svr_pri_key.some
  THEN Outcome(Err("CipherNotReady"), rd, ms.off, out, <<>>, <<>>)
  ELSE IF ms.data[1] % 16 = 2
  THEN V4_read_aes(Advance(rd, 1), f, ms.off, out,
                   IF ms.data[1] \div 16 = 1 THEN "None" ELSE "Zlib")
  ELSE V4_read_plain(Advance(rd, 1), f, ms.off, out,
                     IF ms.data[1] \div 16 = 1 THEN "None" ELSE "Zlib")

\* Fault: a mode byte with an illegal compression nibble is left in the
\* stream.
V4_read_mode_rewound(rd, f, out, ms) ==
  IF ~ms.ok THEN EofAt(ms, rd, out)
  ELSE IF ms.data[1] \div 16 \notin {1, 2}
  THEN Outcome(NeedRecover(-2), rd, ms.off - 1, out, <<>>, <<>>)
  ELSE IF ms.data[1] % 16 \notin {1, 2}
  THEN Outcome(NeedRecover(-3), rd, ms.off, out, <<>>, <<>>)
  ELSE IF ms.data[1] % 16 = 2 /\ ~rd.svr_pri_key.some
  THEN Outcome(Err("CipherNotReady"), rd, ms.off, out, <<>>, <<>>)
  ELSE IF ms.data[1] % 16 = 2
  THEN V4_read_aes(Advance(rd, 1), f, ms.off, out,
                   IF ms.data[1] \div 16 = 1 THEN "None" ELSE "Zlib")
  ELSE V4_read_plain(Advance(rd, 1), f, ms.off, out,
                     IF ms.data[1] \div 16 = 1 THEN "None" ELSE "Zlib")

\* FileReaderV4::read from the mode byte on
V4_read_mode(rd, f, out, ms) ==
  IF ~ms.ok THEN EofAt(ms, rd, out)
  ELSE IF ms.data[1] \div 16 \notin {1, 2}
  THEN Outcome(NeedRecover(-2), rd, ms.off, out, <<>>, <<>>)
  ELSE IF ms.data[1] % 16 \notin {1, 2}
  THEN Outcome(NeedRecover(-3), rd, ms.off, out, <<>>, <<>>)
  ELSE IF ms.data[1] % 16 = 2 /\ ~rd.svr_pri_key.some
  THEN Outcome(Err("CipherNotReady"), rd, ms.off, out, <<>>, <<>>)
  ELSE IF ms.data[1] % 16 = 2
  THEN V4_read_aes(Advance(rd, 1), f, ms.off, out,
                   IF ms.data[1] \div 16 = 1 THEN "None" ELSE "Zlib")
  ELSE V4_read_plain(Advance(rd, 1), f, ms.off, out,
                     IF ms.data[1] \div 16 = 1 THEN "None" ELSE "Zlib")

\* Fault: no test of the space left before the entry is read.
V4_read_unguarded(rd, f, off, out) ==
  V4_read_mode(rd, f, out, read_safely(f, off, 1))

\* Fault: the position is set to the size when Eof is returned.
V4_read_eof_moved(rd, f, off, out) ==
  IF space_left(rd) < 1 + 2 + 8
  THEN Outcome(Eof, [rd EXCEPT !.position = rd.size], off, out, <<>>, <<>>)
  ELSE V4_read_mode(rd, f, out, read_safely(f, off, 1))

\* FileReaderV4::read
V4_read(rd, f, off, out) ==
  IF space_left(rd) < 1 + 2 + 8
  THEN Outcome(Eof, rd, off, out, <<>>, <<>>)
  ELSE V4_read_mode(rd, f, out, read_safely(f, off, 1))

\* GlogReader::read: the call through Box<dyn FileReader>
GlogReader_read(rd, f, off, out) ==
  IF rd.version = GLOG_RECOVERY_VERSION
  THEN V3_read(rd, f, off, out)
  ELSE V4_read(rd, f, off, out)

(***************************************************************************)
(* The dispatcher (glog.rs)                                                *)
(***************************************************************************)

OpenFailed(e, off) == [res |-> e, rd |-> V3_from_reader(0), off |-> off]

\* the arm GLOG_CIPHER_VERSION of open_internal
OpenV4(f, v4) ==
  IF ~v4.ok THEN OpenFailed(Err(v4.err), 5)
  ELSE V4_read_remain_header(v4.rd, f, 5)

\* Fault: the key is prepared before the version is looked at.
OpenVersion_keyed(f, key, ver) ==
  IF ~ver.ok THEN OpenFailed(UnexpectedEof(ver.expected, ver.available), ver.off)
  ELSE IF key.some /\ ~prepare_svr_pri_key(key.val).ok
  THEN OpenFailed(Err(prepare_svr_pri_key(key.val).err), 5)
  ELSE IF ver.data[1] = GLOG_RECOVERY_VERSION
  THEN V3_read_remain_header(V3_from_reader(Len(f)), f, 5)
  ELSE IF ver.data[1] = GLOG_CIPHER_VERSION
  THEN OpenV4(f, V4_from_reader(Len(f), key))
  ELSE OpenFailed(ErrOf("UnsupportedVersion", ver.data[1]), 5)

\* Fault: every version up to GLOG_RECOVERY_VERSION gets the V3 reader.
OpenVersion_atMost(f, key, ver) ==
  IF ~ver.ok THEN OpenFailed(UnexpectedEof(ver.expected, ver.available), ver.off)
  ELSE IF ver.data[1] <= GLOG_RECOVERY_VERSION
  THEN V3_read_remain_header(V3_from_reader(Len(f)), f, 5)
  ELSE IF ver.data[1] = GLOG_CIPHER_VERSION
  THEN OpenV4(f, V4_from_reader(Len(f), key))
  ELSE OpenFailed(ErrOf("UnsupportedVersion", ver.data[1]), 5)

\* open_internal from the version byte on.  The file is opened again and
\* the reader gets the second stream, 5 bytes in.
OpenVersion(f, key, ver) ==
  IF ~ver.ok THEN OpenFailed(UnexpectedEof(ver.expected, ver.available), ver.off)
  ELSE IF ver.data[1] = GLOG_RECOVERY_VERSION
  THEN V3_read_remain_header(V3_from_reader(Len(f)), f, 5)
  ELSE IF ver.data[1] = GLOG_CIPHER_VERSION
  THEN OpenV4(f, V4_from_reader(Len(f), key))
  ELSE OpenFailed(ErrOf("UnsupportedVersion", ver.data[1]), 5)

\* Fault: the magic number is read and not compared.
OpenMagic_unchecked(f, key, magic) ==
  IF ~magic.ok THEN OpenFailed(UnexpectedEof(magic.expected, magic.available), magic.off)
  ELSE OpenVersion(f, key, read_safely(f, magic.off, 1))

\* open_internal from the magic on
OpenMagic(f, key, magic) ==
  IF ~magic.ok THEN OpenFailed(UnexpectedEof(magic.expected, magic.available), magic.off)
  ELSE IF magic.data # MAGIC_NUMBER THEN OpenFailed(Err("MagicMismatch"), magic.off)
  ELSE OpenVersion(f, key, read_safely(f, magic.off, 1))

\* open_internal: Ok and the reader, or the error
open_internal(f, key) == OpenMagic(f, key, read_safely(f, 0, 4))

(***************************************************************************)
(* The files the reader is run on.  A file is written from a description   *)
(* (gen) by the producer the format comes from: one deflate stream over    *)
(* all compressed entries, flushed after each; one IV and one client key   *)
(* per encrypted entry.  A description may carry one defect per entry.     *)
(***************************************************************************)

\* the producer's deflate: the nearest match in the window, else a literal
RECURSIVE DeflateFrom(_, _, _, _)
DeflateFrom(window, text, i, acc) ==
  IF i > Len(text)
  THEN [tokens |-> Append(acc, FlushTok), window |-> window]
  ELSE LET b  == text[i]
           ds == {d \in 1..Min(WindowSize, Len(window)) : window[Len(window) - d + 1] = b}
           d  == CHOOSE x \in ds : \A y \in ds : x <= y
       IN  DeflateFrom(Last(Append(window, b), WindowSize), text, i + 1,
                       Append(acc, IF ds = {} THEN b ELSE FlushTok + d))

\* the producer's AES-128-CFB
RECURSIVE CfbEncryptFrom(_, _, _, _)
CfbEncryptFrom(key, iv, pt, ct) ==
  IF Len(ct) = Len(pt) THEN ct
  ELSE LET i == Len(ct) + 1
       IN  CfbEncryptFrom(key, iv, pt,
                          Append(ct, (pt[i] + CfbKeystream(key, iv, ct, i)) % 256))

SvrPrivBytes == HexDecode(SVR_PRIV_KEY).bytes

\* client public keys: two points, the second one also negated, and an
\* abscissa that is not on the curve
PubA == <<2>> \o [i \in 1..32 |-> (7 * i) % 256]

PubB == <<2>> \o [i \in 1..32 |-> (11 * i + 2) % 256]

PubBNeg == <<3>> \o [i \in 1..32 |-> (11 * i + 2) % 256]

PubOff == <<2>> \o [i \in 1..32 |-> (7 * i + 1) % 256]

IvOf(j) == [i \in 1..16 |-> (16 * j + i) % 256]

\* what the producer logs as entry j
TextOf(j) ==
  CASE j % 3 = 1 -> <<97, 98>>
    [] j % 3 = 2 -> <<97, 98, 98>>
    [] OTHER     -> <<98>>

\* an output of more than SINGLE_LOG_CONTENT_MAX_LENGTH bytes in few tokens
BombTokens ==
  <<97>> \o Rep(RunTok, (SINGLE_LOG_CONTENT_MAX_LENGTH \div RunLen) + 1) \o <<FlushTok>>

IsZlib(g, e) == IF g.version = GLOG_RECOVERY_VERSION
                THEN g.hdrMode \div 16 = 1 ELSE e.ms \div 16 = 2

IsAes(g, e) == g.version = GLOG_CIPHER_VERSION /\ e.ms % 16 = 2

\* the bytes the producer passes on after compression (before encryption)
\* for entry e, with the deflater's window before it
Packed(g, e, window) ==
  LET z == DeflateFrom(window, e.text, 1, <<>>)
  IN  IF e.defect = "bomb" THEN [bytes |-> BombTokens, window |-> Rep(97, WindowSize)]
      ELSE IF IsZlib(g, e) THEN [bytes |-> z.tokens, window |-> z.window]
      ELSE [bytes |-> e.text, window |-> window]

\* entry e as written, defect included
EntryBytes(g, e, window) ==
  LET m       == Packed(g, e, window).bytes
      m1      == IF e.defect = "tok" THEN [m EXCEPT ![1] = BadTok] ELSE m
      key     == Take(DiffieHellman(SvrPrivBytes, e.pub), 16)
      payload == IF IsAes(g, e) THEN CfbEncryptFrom(key, e.iv, m1, <<>>) ELSE m1
      len     == CASE e.defect = "len0"   -> 0
                   [] e.defect = "lenBig" -> 65535
                   [] OTHER               -> Len(payload)
      sync    == IF e.defect \in {"sync1", "sync8"}
                 THEN LET k == IF e.defect = "sync1" THEN 1 ELSE 8
                      IN  [SYNC_MARKER EXCEPT ![k] = 255 - @]
                 ELSE SYNC_MARKER
  IN  (IF g.version = GLOG_CIPHER_VERSION THEN <<e.ms>> ELSE <<>>)
      \o (IF IsAes(g, e) THEN e.iv \o e.pub ELSE <<>>)
      \o LE16(len) \o payload \o sync

RECURSIVE EntriesBytes(_, _, _, _)
EntriesBytes(g, j, window, acc) ==
  IF j > Len(g.entries) THEN acc
  ELSE EntriesBytes(g, j + 1, Packed(g, g.entries[j], window).window,
                    acc \o EntryBytes(g, g.entries[j], window))

\* the file of description g
FileOf(g) ==
  LET header == g.magic \o <<g.version>>
                \o (IF g.version = GLOG_RECOVERY_VERSION THEN <<g.hdrMode>> ELSE <<>>)
                \o LE16(g.nameLen) \o Rep(108, g.nameLen)
                \o (IF g.hdrSyncOk THEN SYNC_MARKER ELSE [SYNC_MARKER EXCEPT ![8] = 255 - @])
      all    == header \o EntriesBytes(g, 1, <<>>, <<>>)
  IN  SubSeq(all, 1, Len(all) - Min(g.cut, Len(all)))

(***************************************************************************)
(* The descriptions the model is run on                                    *)
(***************************************************************************)

PubOf(j) == IF j % 2 = 1 THEN PubA ELSE PubB

Entry(ms, j, pub, defect) ==
  [ms |-> ms, text |-> TextOf(j), pub |-> pub, iv |-> IvOf(j), defect |-> defect]

\* V4 mode bytes: 0x11, 0x21, 0x12, 0x22
V4Modes == {17, 33, 18, 34}

GoodEntries(version, j) ==
  IF version = GLOG_RECOVERY_VERSION
  THEN {Entry(0, j, PubOf(j), "none")}
  ELSE {Entry(ms, j, PubOf(j), "none") : ms \in V4Modes}

\* entries with one defect: a length field of 0 or 0xFFFF, a flipped byte
\* in the sync marker, a bad token in the payload, a client key off the
\* curve, a mode byte with an illegal nibble
BadEntries(version, j) ==
  IF version = GLOG_RECOVERY_VERSION
  THEN {Entry(0, j, PubOf(j), d) : d \in {"len0", "lenBig", "sync1", "sync8", "tok"}}
  ELSE {Entry(ms, j, PubOf(j), d) : ms \in {17, 18}, d \in {"len0", "lenBig"}}
       \cup {Entry(ms, j, PubOf(j), "sync1") : ms \in V4Modes}
       \cup {Entry(17, j, PubOf(j), "sync8")}
       \cup {Entry(ms, j, PubOf(j), "tok") : ms \in {33, 34}}
       \cup {Entry(ms, j, PubOff, "pub") : ms \in {18, 34}}
       \cup {Entry(ms, j, PubOf(j), "mode") : ms \in {0, 1, 2, 16, 19, 49, 50}}

RECURSIVE GoodLists(_, _)
GoodLists(version, k) ==
  IF k = 0 THEN {<<>>}
  ELSE {Append(s, e) : s \in GoodLists(version, k - 1), e \in GoodEntries(version, k)}

\* the sound entries that go with a defective one: in V4, an entry that is
\* neither compressed nor encrypted, or one that is both
Companions(version, j) ==
  {e \in GoodEntries(version, j) : e.ms \in {0, 17, 34}}

RECURSIVE CompanionLists(_, _)
CompanionLists(version, k) ==
  IF k = 0 THEN {<<>>}
  ELSE {Append(s, e) : s \in CompanionLists(version, k - 1), e \in Companions(version, k)}

RECURSIVE OneBadLists(_, _)
OneBadLists(version, k) ==
  IF k = 0 THEN {}
  ELSE {Append(s, e) : s \in OneBadLists(version, k - 1), e \in Companions(version, k)}
       \cup {Append(s, e) : s \in CompanionLists(version, k - 1), e \in BadEntries(version, k)}

SoundLists(version) == UNION {GoodLists(version, k) : k \in 0..MaxEntries}

DefectLists(version) == UNION {OneBadLists(version, k) : k \in 0..MaxEntries}

Gen(magic, version, hdrMode, nameLen, hdrSyncOk, entries, cut) ==
  [magic |-> magic, version |-> version, hdrMode |-> hdrMode, nameLen |-> nameLen,
   hdrSyncOk |-> hdrSyncOk, entries |-> entries, cut |-> cut]

\* files with a sound header: V3 files, every list of entries, whole or
\* cut short; V4 files, the sound lists whole or cut short, and the lists
\* with a defect whole
EntryGens ==
  {Gen(MAGIC_NUMBER, GLOG_RECOVERY_VERSION, hm, n, TRUE, es, c) :
     hm \in {0, 16}, n \in 0..MaxNameLen,
     es \in SoundLists(GLOG_RECOVERY_VERSION) \cup DefectLists(GLOG_RECOVERY_VERSION),
     c \in 0..MaxCut}
  \cup
  {Gen(MAGIC_NUMBER, GLOG_CIPHER_VERSION, 0, n, TRUE, es, c) :
     n \in 0..MaxNameLen, es \in SoundLists(GLOG_CIPHER_VERSION), c \in 0..MaxCut}
  \cup
  {Gen(MAGIC_NUMBER, GLOG_CIPHER_VERSION, 0, MaxNameLen, TRUE, es, 0) :
     es \in DefectLists(GLOG_CIPHER_VERSION)}

\* files whose header is the matter: a wrong magic, any version byte, any
\* header mode byte, a wrong header sync marker, a header cut short
HeaderGens ==
  {Gen(m, v, hm, n, s, es, c) :
     m \in {MAGIC_NUMBER, [MAGIC_NUMBER EXCEPT ![4] = 223], <<0, 0, 0, 0>>},
     v \in {0, 2, 3, 4, 5},
     hm \in {0, 1, 2, 16, 17, 32, 34},
     n \in 0..MaxNameLen, s \in BOOLEAN,
     es \in {<<>>, <<Entry(17, 1, PubA, "none")>>},
     c \in {0, 1, 8, 12, 14}}

\* files with an entry that inflates to more than an entry may hold, and
\* the same files with an entry that is not compressed
BombGens ==
  {Gen(MAGIC_NUMBER, v, 16, 0, TRUE, <<Entry(33, 1, PubA, "bomb")>>, 0) :
     v \in {GLOG_RECOVERY_VERSION, GLOG_CIPHER_VERSION}}
  \cup
  {Gen(MAGIC_NUMBER, v, 0, 0, TRUE, <<Entry(17, 1, PubA, "none")>>, 0) :
     v \in {GLOG_RECOVERY_VERSION, GLOG_CIPHER_VERSION}}

\* the key argument of open_with_key: none, the server's key, a string
\* that is not hex, a hex string that is no 32-byte scalar
NoKey == None

GoodKey == Some(SVR_PRIV_KEY)

BadKeys == {Some(<<NotHex, 1>>), Some(<<1, 12>>)}

\* the lengths of the caller's out buffer
OutLens == {0, 2, 4}

BigOutLens == {SINGLE_LOG_CONTENT_MAX_LENGTH, SINGLE_LOG_CONTENT_MAX_LENGTH + 1}

(***************************************************************************)
(* The state machine                                                       *)
(***************************************************************************)

VARIABLES
  gen,      \* the description the file was written from
  file,     \* the bytes of the file
  key,      \* the key argument of open_with_key
  phase,    \* "init", then "open" (a reader was returned) or "failed"
  rd,       \* the reader
  off,      \* bytes the reader's stream has consumed
  out,      \* the caller's out buffer
  res,      \* the result of the last call
  nreads,   \* calls to read so far
  fed,      \* every call of the inflater so far, in order: input, ok, consumed
  lastSync, \* the 8 bytes the last read took as the entry's sync marker
  preOff,   \* off before the last call
  prePos,   \* position before the last call
  before,   \* before the last call: the reader, out, the length of fed, logs
  logs,     \* read_logs: the type filter, log_count, the writer, decode calls
  main      \* main: the files collected, the calls of read_logs, the flush

vars ==
  <<gen, file, key, phase, rd, off, out, res, nreads, fed, lastSync, preOff, prePos,
    before, logs, main>>

\* what a call starts from
Before(r, o, s, l) == [rd |-> r, out |-> o, fed |-> Len(s), logs |-> l]

\* read_logs at its start: log_count = 0, nothing written
LogsOf(types) == [types |-> types, log_count |-> 0, written |-> <<>>, decoded |-> 0]

\* read_logs is not running
NoLogs == LogsOf(<<>>)

\* main with the files it collected, before the loop over them
MainOf(files) ==
  [files |-> files, next |-> 1, called |-> <<>>, flushed |-> FALSE, pc |-> "loop"]

\* main is not running
NoMain == [MainOf(<<>>) EXCEPT !.pc = "none"]

InitAll(g, k, n, l, m) ==
  /\ gen = g
  /\ file = FileOf(g)
  /\ key = k
  /\ phase = "init"
  /\ rd = V3_from_reader(0)
  /\ off = 0
  /\ out = Rep(0, n)
  /\ res = NoResult
  /\ nreads = 0
  /\ fed = <<>>
  /\ lastSync = <<>>
  /\ preOff = 0
  /\ prePos = 0
  /\ before = Before(V3_from_reader(0), Rep(0, n), <<>>, l)
  /\ logs = l
  /\ main = m

InitState(g, k, n, l) == InitAll(g, k, n, l, NoMain)

InitWith(g, k, n) == InitState(g, k, n, NoLogs)

Init ==
  \/ \E g \in EntryGens, k \in {NoKey, GoodKey}, n \in OutLens : InitWith(g, k, n)
  \/ \E g \in HeaderGens, k \in {NoKey, GoodKey} \cup BadKeys : InitWith(g, k, 4)
  \/ \E g \in BombGens, n \in BigOutLens : InitWith(g, GoodKey, n)

Opened(o) ==
  /\ phase' = IF o.res.kind = "Ok" THEN "open" ELSE "failed"
  /\ rd' = o.rd
  /\ off' = o.off
  /\ res' = o.res

\* open_with_key(file, key)
Open ==
  /\ phase = "init"
  /\ Opened(open_internal(file, key))
  /\ preOff' = off
  /\ prePos' = rd.position
  /\ before' = Before(rd, out, fed, logs)
  /\ UNCHANGED <<gen, file, key, out, nreads, fed, lastSync, logs, main>>

Returned(o) ==
  /\ rd' = o.rd
  /\ off' = o.off
  /\ out' = o.out
  /\ res' = o.res
  /\ fed' = fed \o o.fed
  /\ lastSync' = o.sync

\* reader.read(&mut out)
Read ==
  /\ phase = "open"
  /\ nreads < MaxReads
  /\ Returned(GlogReader_read(rd, file, off, out))
  /\ nreads' = nreads + 1
  /\ preOff' = off
  /\ prePos' = rd.position
  /\ before' = Before(rd, out, fed, logs)
  /\ UNCHANGED <<gen, file, key, phase, logs, main>>

Next == Open \/ Read

Spec == Init /\ [][Next]_vars

(***************************************************************************)
(* What the properties are stated in: the description of the file, and     *)
(* the fields of an entry as the bytes of the file give them.              *)
(***************************************************************************)

\* the header of description g is one the readers accept, and the file is
\* not cut short
Whole(g) ==
  /\ g.magic = MAGIC_NUMBER
  /\ g.version \in {GLOG_RECOVERY_VERSION, GLOG_CIPHER_VERSION}
  /\ g.version = GLOG_RECOVERY_VERSION => g.hdrMode \in {0, 1, 16, 17}
  /\ g.hdrSyncOk
  /\ g.cut = 0

\* the reader was given the key the encrypted entries need
KeyFits == \A i \in 1..Len(gen.entries) : IsAes(gen, gen.entries[i]) => key = GoodKey

\* the out buffer is at least as large as every payload
OutHolds == \A i \in 1..Len(gen.entries) : Len(gen.entries[i].text) <= Len(out)

\* a valid file: a sound header, every entry well framed
Valid ==
  /\ Whole(gen)
  /\ \A i \in 1..Len(gen.entries) : gen.entries[i].defect = "none"
  /\ KeyFits

\* the u16 at offset p of the file
LenAt(p) == file[p + 1] + 256 * file[p + 2]

\* the sum of the lengths of the inputs of the inflater
RECURSIVE SumFed(_)
SumFed(s) == IF s = <<>> THEN 0 ELSE Len(Head(s).in) + SumFed(Tail(s))

\* the sum of what the inflater consumed in the calls that returned Ok
RECURSIVE SumConsumed(_)
SumConsumed(s) ==
  IF s = <<>> THEN 0
  ELSE (IF Head(s).ok THEN Head(s).consumed ELSE 0) + SumConsumed(Tail(s))

\* the payloads the producer compressed among the first n entries of g
RECURSIVE ZlibPayloads(_, _, _, _, _)
ZlibPayloads(g, j, n, window, acc) ==
  IF j > n THEN acc
  ELSE ZlibPayloads(g, j + 1, n, Packed(g, g.entries[j], window).window,
                    IF IsZlib(g, g.entries[j])
                    THEN Append(acc, Packed(g, g.entries[j], window).bytes)
                    ELSE acc)

\* one decompressor fed the inputs s[i..] in turn, never reset
RECURSIVE Refed(_, _, _, _)
Refed(d, s, i, room) ==
  IF i > Len(s) THEN d
  ELSE Refed(Flate2Decompress(d, s[i].in, room).d, s, i + 1, room)

(***************************************************************************)
(* C1.  open on a file whose first four bytes are not the magic number     *)
(* fails with MagicMismatch, whatever the version byte and the key; no     *)
(* reader is returned, so nothing is ever read.                            *)
(***************************************************************************)
C1_MagicMismatch ==
  (phase # "init" /\ Len(file) >= 4 /\ Take(file, 4) # MAGIC_NUMBER)
    => /\ phase = "failed"
       /\ res = Err("MagicMismatch")
       /\ nreads = 0
       /\ fed = <<>>

C1_Witness ==
  /\ phase = "failed"
  /\ Len(file) >= 5
  /\ Take(file, 4) # MAGIC_NUMBER
  /\ file[5] = GLOG_CIPHER_VERSION
  /\ key \in BadKeys
  /\ res = Err("MagicMismatch")

(***************************************************************************)
(* C2.  After a matching magic, open dispatches on the version byte: 3     *)
(* gives the V3 reader, 4 the V4 reader, which holds the key argument;     *)
(* any other value fails with UnsupportedVersion(v).  A reader is returned *)
(* only after read_remain_header succeeded: the stream and the position    *)
(* stand at the end of the header, right after its sync marker.  With      *)
(* version 3 or 4, open fails only with an error of the header or, for     *)
(* version 4, of the key.                                                  *)
(***************************************************************************)
C2_HeaderLen ==
  IF file[5] = GLOG_RECOVERY_VERSION THEN 16 + LenAt(6) ELSE 15 + LenAt(5)

C2_Dispatch ==
  (phase # "init" /\ Len(file) >= 5 /\ Take(file, 4) = MAGIC_NUMBER)
    => /\ file[5] \notin {GLOG_RECOVERY_VERSION, GLOG_CIPHER_VERSION}
            => phase = "failed" /\ res = ErrOf("UnsupportedVersion", file[5])
       /\ phase = "open"
            => /\ file[5] \in {GLOG_RECOVERY_VERSION, GLOG_CIPHER_VERSION}
               /\ rd.version = file[5]
               /\ file[5] = GLOG_CIPHER_VERSION => rd.svr_pri_key = key
               /\ nreads = 0
                    => /\ res = Ok
                       /\ rd.position = C2_HeaderLen
                       /\ off = C2_HeaderLen
                       /\ SubSeq(file, off - 7, off) = SYNC_MARKER
       /\ (phase = "failed" /\ file[5] = GLOG_RECOVERY_VERSION)
            => res.err \in {"UnexpectedEof", "IllegalCompressMode",
                            "IllegalEncryptMode", "SyncMarkerMismatch"}
       /\ (phase = "failed" /\ file[5] = GLOG_CIPHER_VERSION)
            => IF key \in BadKeys
               THEN res.err \in {"HexError", "EllipticCurveError"}
               ELSE res.err \in {"UnexpectedEof", "SyncMarkerMismatch"}

C2_Witness ==
  /\ phase = "open"
  /\ nreads = 0
  /\ file[5] = GLOG_CIPHER_VERSION
  /\ rd.version = GLOG_CIPHER_VERSION
  /\ key = GoodKey
  /\ rd.svr_pri_key = GoodKey
  /\ rd.position = 15 + MaxNameLen

(***************************************************************************)
(* C3.  For a valid file of k entries and an out buffer at least as large  *)
(* as every payload, read number i <= k returns Success(n) with n the      *)
(* length of the payload the producer logged as entry i, and out[..n]      *)
(* that payload; every later read returns Eof.                             *)
(***************************************************************************)
C3_InOrder ==
  (phase = "open" /\ Valid /\ OutHolds /\ nreads >= 1)
    => IF nreads <= Len(gen.entries)
       THEN /\ res = Success(Len(gen.entries[nreads].text))
            /\ Take(out, res.n) = gen.entries[nreads].text
       ELSE res = Eof

C3_Witness ==
  /\ phase = "open" /\ Valid /\ OutHolds
  /\ gen.version = GLOG_CIPHER_VERSION
  /\ Len(gen.entries) = 3
  /\ gen.entries[2].ms = 34 /\ gen.entries[3].ms = 34
  /\ nreads = 3
  /\ res = Success(1)
  /\ Take(out, 1) = gen.entries[3].text

(***************************************************************************)
(* C4.  For a file that is a valid header and nothing else, V3 or V4, any  *)
(* length of the proto name, the first read (and every read) returns Eof   *)
(* and takes nothing from the stream.                                      *)
(***************************************************************************)
C4_HeaderOnly ==
  (phase = "open" /\ Whole(gen) /\ gen.entries = <<>> /\ nreads >= 1)
    => res = Eof /\ off = Len(file) /\ off = preOff

C4_Witness ==
  /\ phase = "open" /\ Whole(gen) /\ gen.entries = <<>>
  /\ gen.version = GLOG_CIPHER_VERSION
  /\ gen.nameLen = MaxNameLen
  /\ nreads = 1
  /\ res = Eof

(***************************************************************************)
(* C5.  Whenever read returns Success(n), the 8 bytes it took from the     *)
(* stream are the sync marker, and they are the 8 bytes of the file that   *)
(* follow the payload of the entry the read began at.                      *)
(***************************************************************************)
C5_PayloadEnd ==
  IF rd.version = GLOG_RECOVERY_VERSION THEN preOff + 2 + LenAt(preOff)
  ELSE IF file[preOff + 1] % 16 = 2 THEN preOff + 52 + LenAt(preOff + 50)
  ELSE preOff + 3 + LenAt(preOff + 1)

C5_SyncAfterPayload ==
  (phase = "open" /\ nreads >= 1 /\ res.kind = "Success")
    => /\ lastSync = SYNC_MARKER
       /\ off = C5_PayloadEnd + 8
       /\ SubSeq(file, C5_PayloadEnd + 1, C5_PayloadEnd + 8) = SYNC_MARKER

C5_Witness ==
  /\ phase = "open" /\ nreads = 2 /\ res.kind = "Success"
  /\ rd.version = GLOG_CIPHER_VERSION
  /\ file[preOff + 1] = 34
  /\ lastSync = SYNC_MARKER

(***************************************************************************)
(* C6.  As stated: for every Success(n), whatever the file, the            *)
(* compression mode and the out buffer, 0 <= n <= out.len and              *)
(* n <= 16384.                                                             *)
(***************************************************************************)
C6_AsStated ==
  (phase = "open" /\ nreads >= 1 /\ res.kind = "Success")
    => /\ 0 <= res.n /\ res.n <= Len(out)
       /\ res.n <= SINGLE_LOG_CONTENT_MAX_LENGTH

\* the entry the last read began at is a compressed one
C6_LastZlib ==
  IF rd.version = GLOG_RECOVERY_VERSION THEN rd.compress_mode = "Zlib"
  ELSE file[preOff + 1] \div 16 = 2

(***************************************************************************)
(* C6, amended.  For every Success(n), 0 <= n <= out.len; and n <= 16384   *)
(* when the entry is not compressed or the out buffer is no longer than    *)
(* 16384 bytes.  (A compressed entry fills an out buffer of any length.)   *)
(***************************************************************************)
C6_Bounded ==
  (phase = "open" /\ nreads >= 1 /\ res.kind = "Success")
    => /\ 0 <= res.n /\ res.n <= Len(out)
       /\ (~C6_LastZlib \/ Len(out) <= SINGLE_LOG_CONTENT_MAX_LENGTH)
            => res.n <= SINGLE_LOG_CONTENT_MAX_LENGTH

C6_Witness ==
  /\ phase = "open" /\ nreads = 1 /\ res.kind = "Success"
  /\ C6_LastZlib
  /\ Len(out) = SINGLE_LOG_CONTENT_MAX_LENGTH
  /\ res.n = SINGLE_LOG_CONTENT_MAX_LENGTH

(***************************************************************************)
(* C7.  In a file of 3 entries whose only defect is one flipped byte in    *)
(* the sync marker of the second entry, read by a reader that holds the    *)
(* key of its encrypted entries into an out buffer that holds every        *)
(* payload, the first read returns Success and the second NeedRecover(-3)  *)
(* (V3) or NeedRecover(-7) (V4).                                           *)
(***************************************************************************)
C7_Case ==
  /\ phase = "open" /\ Whole(gen) /\ KeyFits /\ OutHolds
  /\ Len(gen.entries) = 3
  /\ gen.entries[1].defect = "none"
  /\ gen.entries[2].defect \in {"sync1", "sync8"}
  /\ gen.entries[3].defect = "none"

C7_SyncFlipped ==
  C7_Case
    => /\ nreads = 1 => res = Success(Len(gen.entries[1].text))
       /\ nreads = 2 => res = NeedRecover(IF gen.version = GLOG_RECOVERY_VERSION
                                          THEN -3 ELSE -7)

C7_Witness ==
  /\ C7_Case
  /\ gen.version = GLOG_CIPHER_VERSION
  /\ gen.entries[2].ms = 17
  /\ gen.entries[2].defect = "sync8"
  /\ nreads = 2
  /\ res = NeedRecover(-7)

(***************************************************************************)
(* C8.  In V4, a read that comes to a length field of 0 or of more than    *)
(* 16384 returns NeedRecover(-4) for an encrypted entry, NeedRecover(-6)   *)
(* for one that is not, and leaves the stream right after the 2 bytes of   *)
(* the length field.                                                       *)
(***************************************************************************)
C8_LenOff == preOff + 1 + (IF file[preOff + 1] % 16 = 2 THEN 16 + 33 ELSE 0)

C8_Case ==
  /\ phase = "open" /\ nreads >= 1
  /\ rd.version = GLOG_CIPHER_VERSION
  /\ rd.size - prePos >= 11
  /\ preOff + 1 <= Len(file)
  /\ file[preOff + 1] \div 16 \in {1, 2}
  /\ file[preOff + 1] % 16 \in {1, 2}
  /\ file[preOff + 1] % 16 = 2 => key # NoKey
  /\ C8_LenOff + 2 <= Len(file)
  /\ LenAt(C8_LenOff) = 0 \/ LenAt(C8_LenOff) > SINGLE_LOG_CONTENT_MAX_LENGTH

C8_BadLength ==
  C8_Case
    => /\ res = NeedRecover(IF file[preOff + 1] % 16 = 2 THEN -4 ELSE -6)
       /\ off = C8_LenOff + 2

C8_Witness ==
  /\ C8_Case
  /\ file[preOff + 1] = 18
  /\ LenAt(C8_LenOff) = 65535
  /\ res = NeedRecover(-4)
  /\ off = preOff + 52

(***************************************************************************)
(* C9.  As stated: after read has returned Eof, total_in of the inflater   *)
(* is the sum of the length fields of the entries that were fed to it,     *)
(* for every length of the out buffer.                                     *)
(***************************************************************************)
C9_AsStated ==
  (phase = "open" /\ res.kind = "Eof")
    => rd.inflater.total_in = SumFed(fed)

\* every call of the inflater returned Ok and consumed its whole input
C9_AllConsumed ==
  \A i \in 1..Len(fed) : fed[i].ok /\ fed[i].consumed = Len(fed[i].in)

(***************************************************************************)
(* C9, amended.  After read has returned Eof, total_in is the sum of what  *)
(* the inflater consumed in the calls that returned Ok: the sum of the     *)
(* length fields of the entries fed to it if every call returned Ok and    *)
(* consumed its whole input, as for a valid file read into an out buffer   *)
(* longer than every payload; the rest of an input that did not fit the    *)
(* out buffer is dropped and not counted.                                  *)
(***************************************************************************)
C9_TotalIn ==
  (phase = "open" /\ res.kind = "Eof")
    => /\ rd.inflater.total_in = SumConsumed(fed)
       /\ C9_AllConsumed => rd.inflater.total_in = SumFed(fed)
       /\ (Valid /\ \A i \in 1..Len(gen.entries) : Len(gen.entries[i].text) < Len(out))
            => /\ C9_AllConsumed
               /\ fed # <<>> => rd.inflater.total_in > 0

C9_Witness ==
  /\ phase = "open" /\ res.kind = "Eof"
  /\ Valid
  /\ Len(fed) = 3
  /\ C9_AllConsumed
  /\ rd.inflater.total_in = SumFed(fed)
  /\ rd.inflater.total_in >= 9

(***************************************************************************)
(* C10.  The reader has one inflater from its construction on and never    *)
(* resets or replaces it: its decompressor is the one that was fed every   *)
(* input so far in turn, its totals are the sums over all calls, and for   *)
(* a valid file read into an out buffer that holds every payload the       *)
(* inputs after n reads are the payloads, decrypted, of the compressed     *)
(* entries among the first n, in the order of the file.                    *)
(***************************************************************************)
C10_OneInflater ==
  /\ phase = "open" /\ nreads = 0 => rd.inflater = StatefulInflaterNew
  /\ phase = "open"
       => /\ rd.inflater.decompressor = Refed(NewDecompress, fed, 1, Len(out))
          /\ rd.inflater.total_in = SumConsumed(fed)
  /\ (phase = "open" /\ Valid /\ OutHolds)
       => [i \in 1..Len(fed) |-> fed[i].in]
            = ZlibPayloads(gen, 1, Min(nreads, Len(gen.entries)), <<>>, <<>>)

C10_Witness ==
  /\ phase = "open" /\ Valid /\ OutHolds
  /\ gen.version = GLOG_CIPHER_VERSION
  /\ nreads = 3
  /\ Len(fed) = 2
  /\ gen.entries[1].ms = 34 /\ gen.entries[2].ms = 17 /\ gen.entries[3].ms = 33
  /\ fed[2].in = <<FlushTok + 1, FlushTok>>
  /\ res = Success(1)

(***************************************************************************)
(* C11.  get_shared_key_cached is idempotent per key: for a reader that    *)
(* has derived the secret of a 33-byte client key, every further call      *)
(* with the same 33 bytes returns that same secret, from the cache,        *)
(* without decompressing the point or running ECDH again, and leaves the   *)
(* reader (its cache included) as it was.                                  *)
(***************************************************************************)
C11_Idempotent ==
  phase = "open"
    => \A pub \in DOMAIN rd.shared_key_cache :
         /\ get_shared_key_cached(rd, pub).ok
         /\ ~get_shared_key_cached(rd, pub).derived
         /\ get_shared_key_cached(rd, pub).key = rd.shared_key_cache[pub]
         /\ get_shared_key_cached(rd, pub).key = DiffieHellman(rd.svr_ec_pri_key.val, pub)
         /\ get_shared_key_cached(rd, pub).rd = rd

C11_Witness ==
  /\ phase = "open" /\ Valid
  /\ Len(gen.entries) = 3
  /\ gen.entries[1].ms = 18 /\ gen.entries[2].ms = 34 /\ gen.entries[3].ms = 18
  /\ gen.entries[1].pub = gen.entries[3].pub
  /\ nreads = 3
  /\ res.kind = "Success"
  /\ DOMAIN rd.shared_key_cache = {PubA, PubB}

(***************************************************************************)
(* C12.  In V4, a read that comes to a valid mode byte that selects AES    *)
(* in a reader opened without a key fails with CipherNotReady, not         *)
(* NeedRecover; and a V4 file all of whose entries have the encryption     *)
(* nibble 1 is read without any CipherNotReady when no key was supplied.   *)
(***************************************************************************)
C12_Case ==
  /\ phase = "open" /\ nreads >= 1
  /\ rd.version = GLOG_CIPHER_VERSION
  /\ rd.size - prePos >= 11
  /\ preOff + 1 <= Len(file)
  /\ file[preOff + 1] \div 16 \in {1, 2}
  /\ file[preOff + 1] % 16 = 2
  /\ key = NoKey

C12_CipherNotReady ==
  /\ C12_Case => res = Err("CipherNotReady")
  /\ (/\ phase = "open" /\ gen.version = GLOG_CIPHER_VERSION
      /\ \A i \in 1..Len(gen.entries) : gen.entries[i].ms % 16 = 1
      /\ key = NoKey)
       => /\ res.err # "CipherNotReady"
          /\ (Valid /\ OutHolds /\ nreads >= 1 /\ nreads <= Len(gen.entries))
               => res.kind = "Success"

C12_Witness ==
  /\ C12_Case
  /\ nreads = 2
  /\ file[preOff + 1] = 34
  /\ res = Err("CipherNotReady")

(***************************************************************************)
(* C13.  As stated: open of a V3 file whose header mode byte has a low     *)
(* nibble other than 0 fails; no reader is returned, for the nibble 1      *)
(* either.                                                                 *)
(***************************************************************************)
C13_AsStated ==
  (/\ phase # "init" /\ Len(file) >= 6 /\ Take(file, 4) = MAGIC_NUMBER
   /\ file[5] = GLOG_RECOVERY_VERSION /\ file[6] % 16 # 0)
    => phase = "failed"

(***************************************************************************)
(* Level (proto.rs)                                                        *)
(***************************************************************************)

\* Fault: a value out of range is clamped to the nearest level.
Level_from_i32_clamped(value) ==
  CASE value <= 0 -> "Info"
    [] value = 1 -> "Debug"
    [] value = 2 -> "Verbose"
    [] value = 3 -> "Warn"
    [] OTHER     -> "Error"

\* Level::from_i32
Level_from_i32(value) ==
  CASE value = 0 -> "Info"
    [] value = 1 -> "Debug"
    [] value = 2 -> "Verbose"
    [] value = 3 -> "Warn"
    [] value = 4 -> "Error"
    [] OTHER     -> "Info"

(***************************************************************************)
(* The functions on their own: one call of read_u16_le on a stream, or of  *)
(* Level::from_i32 on a value, or of read_safely on a stream and a         *)
(* buffer, or a few calls of decompress on one StatefulInflater.  gen      *)
(* names the function and its argument, file and off are the stream, res   *)
(* takes what the call returned; for decompress rd.inflater is the         *)
(* inflater, out the out buffer, fed the calls so far; for read_safely     *)
(* out is the buffer filled.                                               *)
(***************************************************************************)

\* i32 values: the levels, their neighbours, the value of the unit test
\* and the ends of the type
I32Samples == (-3..8) \cup {99, -2147483647 - 1, 2147483647}

\* streams of fewer and of more than two bytes
ShortStreams ==
  {<<>>} \cup {<<a>> : a \in {0, 1, 255}}
  \cup {<<a, b, c>> : a \in {0, 7}, b \in {1, 255}, c \in {0, 128}}

\* inputs of decompress: literals, empty blocks, copies from the window,
\* runs that no out buffer here holds, an invalid code
DecompressInputs ==
  {<<>>, <<FlushTok>>, <<97>>, <<97, 98, 99>>, <<98, FlushTok>>,
   <<FlushTok + 1, 99>>, <<FlushTok + 2, FlushTok>>, <<RunTok, 98>>,
   <<97, RunTok, FlushTok>>, <<BadTok>>, <<97, BadTok>>}

\* the lengths of the out buffer of decompress
RoomLens == {0, 1, 2}

\* streams of up to n bytes, none of them 0
Streams(n) == UNION {[1..k -> {1, 2}] : k \in 0..n}

\* the bytes a read of the stream gives at most
Chunks == {1, 2, MaxExpected}

PureInitGen(g, f, o, n) ==
  /\ gen = g
  /\ file = f
  /\ off = o
  /\ key = NoKey
  /\ phase = "init"
  /\ rd = V3_from_reader(0)
  /\ out = Rep(0, n)
  /\ res = NoResult
  /\ nreads = 0
  /\ fed = <<>>
  /\ lastSync = <<>>
  /\ preOff = o
  /\ prePos = 0
  /\ before = Before(V3_from_reader(0), Rep(0, n), <<>>, NoLogs)
  /\ logs = NoLogs
  /\ main = NoMain

PureInitOut(fn, value, f, o, n) == PureInitGen([fn |-> fn, value |-> value], f, o, n)

PureInitWith(fn, value, f, o) == PureInitOut(fn, value, f, o, 0)

PureInit ==
  \/ \E b0 \in Byte, b1 \in Byte : PureInitWith("read_u16_le", 0, <<b0, b1>>, 0)
  \/ \E f \in ShortStreams : \E o \in 0..Len(f) : PureInitWith("read_u16_le", 0, f, o)
  \/ \E v \in I32Samples : PureInitWith("from_i32", v, <<>>, 0)
  \/ \E n \in RoomLens : PureInitOut("decompress", 0, <<>>, 0, n)
  \/ \E f \in Streams(MaxExpected) : \E o \in 0..Len(f), e \in 0..MaxExpected, c \in Chunks :
       \E n \in {e, e + 1} :
         PureInitGen([fn |-> "read_safely", value |-> e, chunk |-> c], f, o, n)

\* Ok(u16), or the error read_safely returned
U16Returned(r) ==
  /\ res' = IF r.ok THEN [kind |-> "Ok", val |-> r.val]
            ELSE UnexpectedEof(r.expected, r.available)
  /\ off' = r.off

\* read_u16_le(&mut input)
CallReadU16 ==
  /\ phase = "init" /\ gen.fn = "read_u16_le"
  /\ U16Returned(read_u16_le(file, off))
  /\ phase' = "done"
  /\ UNCHANGED <<gen, file, key, rd, out, nreads, fed, lastSync, preOff, prePos, before, logs, main>>

\* Level::from_i32(value)
CallFromI32 ==
  /\ phase = "init" /\ gen.fn = "from_i32"
  /\ res' = [kind |-> "Level", level |-> Level_from_i32(gen.value)]
  /\ phase' = "done"
  /\ UNCHANGED <<gen, file, key, rd, off, out, nreads, fed, lastSync, preOff, prePos, before, logs, main>>

\* Ok(produced), or DecompressError, and what the call left behind
Decompressed(in, z) ==
  /\ rd' = [rd EXCEPT !.inflater = z.inf]
  /\ out' = CopyInto(out, z.written)
  /\ res' = IF z.ok THEN [kind |-> "Ok", val |-> z.produced] ELSE Err("DecompressError")
  /\ fed' = Append(fed, [in |-> in, ok |-> z.ok, consumed |-> z.consumed])

\* inflater.decompress(&in_buf, &mut out_buf)
CallDecompress ==
  /\ phase \in {"init", "called"} /\ gen.fn = "decompress"
  /\ nreads < MaxCalls
  /\ \E in \in DecompressInputs :
       Decompressed(in, InflaterDecompress(rd.inflater, in, Len(out)))
  /\ phase' = "called"
  /\ nreads' = nreads + 1
  /\ before' = Before(rd, out, fed, logs)
  /\ UNCHANGED <<gen, file, key, off, lastSync, preOff, prePos, logs, main>>

\* Ok(n), or the error, and the buffer as the loop left it
ReadSafelyReturned(r) ==
  /\ res' = IF r.ok THEN [kind |-> "Ok", val |-> r.n]
            ELSE UnexpectedEof(r.expected, r.available)
  /\ off' = r.off
  /\ out' = r.filled

\* read_safely(&mut input, expected, &mut filled)
CallReadSafely ==
  /\ phase = "init" /\ gen.fn = "read_safely"
  /\ ReadSafelyReturned(read_safely_loop(file, off, gen.value, out, 0, gen.chunk))
  /\ phase' = "done"
  /\ before' = Before(rd, out, fed, logs)
  /\ UNCHANGED <<gen, file, key, rd, nreads, fed, lastSync, preOff, prePos, logs, main>>

PureNext == CallReadU16 \/ CallFromI32 \/ CallDecompress \/ CallReadSafely

SpecPure == PureInit /\ [][PureNext]_vars

(***************************************************************************)
(* C14.  read_u16_le takes exactly two bytes b0, b1 from the stream and    *)
(* returns b0 + 256 * b1, for all byte values; with fewer than two bytes   *)
(* left it fails with UnexpectedEof.                                       *)
(***************************************************************************)
C14_LittleEndian ==
  (phase = "done" /\ gen.fn = "read_u16_le")
    => IF Len(file) - preOff >= 2
       THEN /\ res.kind = "Ok"
            /\ res.val = file[preOff + 1] + 256 * file[preOff + 2]
            /\ off = preOff + 2
       ELSE res = UnexpectedEof(2, Len(file) - preOff)

C14_Witness ==
  /\ phase = "done" /\ gen.fn = "read_u16_le"
  /\ file = <<1, 2>>
  /\ res.kind = "Ok" /\ res.val = 513
  /\ off = 2

(***************************************************************************)
(* C15.  Level::from_i32 maps 0, 1, 2, 3, 4 to Info, Debug, Verbose,       *)
(* Warn, Error, and every other i32, negative or greater than 4, to Info.  *)
(***************************************************************************)
C15_Levels ==
  (phase = "done" /\ gen.fn = "from_i32")
    => IF gen.value \in 0..4
       THEN res.level = <<"Info", "Debug", "Verbose", "Warn", "Error">>[gen.value + 1]
       ELSE res.level = "Info"

C15_Witness ==
  /\ phase = "done" /\ gen.fn = "from_i32"
  /\ gen.value = -2147483647 - 1
  /\ res.level = "Info"

\* the V3 reader began the last read with 11 bytes or more of space left
\* and the two bytes of a length field in the stream
C16_AtLength ==
  /\ phase = "open" /\ nreads >= 1
  /\ rd.version = GLOG_RECOVERY_VERSION
  /\ rd.size - prePos >= 11
  /\ preOff + 2 <= Len(file)

(***************************************************************************)
(* C16.  As stated: in V3, for every entry whose length field is 0 or      *)
(* greater than 16384, read returns NeedRecover(-2), however many bytes    *)
(* remain in the file after the length field.                              *)
(***************************************************************************)
C16_AsStated ==
  (C16_AtLength /\ (LenAt(preOff) = 0 \/ LenAt(preOff) > SINGLE_LOG_CONTENT_MAX_LENGTH))
    => res = NeedRecover(-2)

(***************************************************************************)
(* C17.  As stated: in V3, when the length field len is in 1..16384 and    *)
(* fewer than len + 8 bytes remain after the length field, read fails      *)
(* with UnexpectedEof{expected: len + 8, available: space_left} and reads  *)
(* no payload byte.                                                        *)
(***************************************************************************)
C17_AsStated ==
  (/\ C16_AtLength
   /\ LenAt(preOff) >= 1 /\ LenAt(preOff) <= SINGLE_LOG_CONTENT_MAX_LENGTH
   /\ Len(file) - (preOff + 2) < LenAt(preOff) + 8)
    => /\ res = UnexpectedEof(LenAt(preOff) + 8, space_left(rd))
       /\ off = preOff + 2

(***************************************************************************)
(* C18.  As stated: after a successful open and after any reads, whatever  *)
(* they returned, position() is the number of bytes taken from the         *)
(* stream, so that space_left() is the number of unread bytes.             *)
(***************************************************************************)
C18_AsStated ==
  phase = "open"
    => /\ rd.position = off
       /\ space_left(rd) = Len(file) - off

(***************************************************************************)
(* C19.  As stated: after any reads, read returns Eof whenever fewer than  *)
(* 11 bytes of the file remain unread in the stream, and never an error.   *)
(***************************************************************************)
C19_AsStated ==
  (phase = "open" /\ nreads >= 1 /\ Len(file) - preOff < 11)
    => res = Eof

(***************************************************************************)
(* C20.  In V4, read decodes the mode byte of an entry as: high nibble 1   *)
(* no compression, 2 Zlib, anything else NeedRecover(-2); low nibble 1 no  *)
(* encryption, 2 AES, anything else NeedRecover(-3).  The compression      *)
(* nibble is checked first, so a byte with both nibbles illegal gives -2,  *)
(* and both checks come before the one for CipherNotReady.                 *)
(***************************************************************************)
C20_Case ==
  /\ phase = "open" /\ nreads >= 1
  /\ rd.version = GLOG_CIPHER_VERSION
  /\ rd.size - prePos >= 11
  /\ preOff + 1 <= Len(file)

\* the entries among the first n whose mode byte m satisfies m \div d % 16 = 2
C20_Marked(n, d) ==
  {i \in 1..Min(n, Len(gen.entries)) : (gen.entries[i].ms \div d) % 16 = 2}

C20_ModeByte ==
  /\ C20_Case
       => /\ file[preOff + 1] \div 16 \notin {1, 2}
               => res = NeedRecover(-2) /\ off = preOff + 1
          /\ (file[preOff + 1] \div 16 \in {1, 2} /\ file[preOff + 1] % 16 \notin {1, 2})
               => res = NeedRecover(-3) /\ off = preOff + 1
          /\ (file[preOff + 1] \div 16 \in {1, 2} /\ file[preOff + 1] % 16 \in {1, 2})
               => res \notin {NeedRecover(-2), NeedRecover(-3)}
          /\ res = Err("CipherNotReady")
               => file[preOff + 1] \div 16 \in {1, 2} /\ file[preOff + 1] % 16 = 2
  /\ (phase = "open" /\ gen.version = GLOG_CIPHER_VERSION /\ Valid /\ OutHolds)
       => /\ Len(fed) = Cardinality(C20_Marked(nreads, 16))
          /\ DOMAIN rd.shared_key_cache
               = {gen.entries[i].pub : i \in C20_Marked(nreads, 1)}

C20_Witness ==
  /\ C20_Case
  /\ key = NoKey
  /\ file[preOff + 1] = 50
  /\ res = NeedRecover(-2)

(***************************************************************************)
(* The fields of the encrypted V4 entry the last read began at, as the     *)
(* bytes of the file give them.                                            *)
(***************************************************************************)

\* the last read began at a V4 entry whose mode byte selects AES, in a
\* reader that holds a key, with the IV, the client key, a valid length
\* field and the payload all in the file
AesEntryRead ==
  /\ phase = "open" /\ nreads >= 1
  /\ rd.version = GLOG_CIPHER_VERSION
  /\ rd.size - prePos >= 11
  /\ preOff + 52 <= Len(file)
  /\ file[preOff + 1] \div 16 \in {1, 2}
  /\ file[preOff + 1] % 16 = 2
  /\ key = GoodKey
  /\ LenAt(preOff + 50) >= 1 /\ LenAt(preOff + 50) <= SINGLE_LOG_CONTENT_MAX_LENGTH
  /\ preOff + 52 + LenAt(preOff + 50) <= Len(file)

AesIv == SubSeq(file, preOff + 2, preOff + 17)

AesPub == SubSeq(file, preOff + 18, preOff + 50)

AesCipherText == SubSeq(file, preOff + 53, preOff + 52 + LenAt(preOff + 50))

(***************************************************************************)
(* C21.  In V4, when decrypt fails for an encrypted entry (its client key  *)
(* is not a point of the curve), read returns NeedRecover(-5), not an      *)
(* Err; the stream then stands right after the payload, before the sync    *)
(* marker, and the shared-key cache is as it was before the read.  read    *)
(* returns NeedRecover(-5) in no other case.                               *)
(***************************************************************************)
C21_DecryptFails ==
  /\ (AesEntryRead /\ ~ClientPubKeyOk(AesPub))
       => /\ res = NeedRecover(-5)
          /\ off = preOff + 52 + LenAt(preOff + 50)
          /\ off + 8 <= Len(file) => SubSeq(file, off + 1, off + 8) = SYNC_MARKER
          /\ rd.shared_key_cache = before.rd.shared_key_cache
          /\ AesPub \notin DOMAIN rd.shared_key_cache
          /\ fed = SubSeq(fed, 1, before.fed)
  /\ (phase = "open" /\ res = NeedRecover(-5))
       => AesEntryRead /\ ~ClientPubKeyOk(AesPub)

C21_Witness ==
  /\ AesEntryRead /\ ~ClientPubKeyOk(AesPub)
  /\ nreads = 2
  /\ file[preOff + 1] = 34
  /\ res = NeedRecover(-5)
  /\ DOMAIN rd.shared_key_cache = {PubA}
  /\ off + 8 = Len(file)

\* what decrypt makes of the entry: AES-128-CFB under the first 16 bytes of
\* the secret shared with the entry's client key
AesPlain ==
  CfbDecrypt(Take(DiffieHellman(rd.svr_ec_pri_key.val, AesPub), 16), AesIv, AesCipherText)

(***************************************************************************)
(* C22.  For a V4 entry with mode byte 0x22 that decrypts, the one input   *)
(* the read passes to the inflater is the output of decrypt on the         *)
(* entry's ciphertext, never the ciphertext as read; for an entry 0x12     *)
(* the decrypted bytes are copied to out, as many as fit, and the          *)
(* inflater is not called and keeps its state.                             *)
(***************************************************************************)
C22_DecryptThenInflate ==
  (AesEntryRead /\ ClientPubKeyOk(AesPub))
    => IF file[preOff + 1] = 34
       THEN /\ Len(fed) = before.fed + 1
            /\ fed[Len(fed)].in = AesPlain
            /\ fed[Len(fed)].in # AesCipherText
       ELSE /\ Len(fed) = before.fed
            /\ rd.inflater = before.rd.inflater
            /\ Take(out, Min(Len(AesPlain), Len(out))) = Take(AesPlain, Len(out))
            /\ res.kind = "Success" => res.n = Min(Len(AesPlain), Len(out))

C22_Witness ==
  /\ AesEntryRead /\ ClientPubKeyOk(AesPub)
  /\ file[preOff + 1] = 34
  /\ nreads = 2
  /\ before.fed = 1
  /\ fed[2].in = <<FlushTok + 2, FlushTok + 2, FlushTok + 1, FlushTok>>
  /\ res = Success(3)

\* the last read was one of the V4 reader
V4ReadDone ==
  /\ phase = "open" /\ nreads >= 1
  /\ rd.version = GLOG_CIPHER_VERSION

\* the last read took a mode byte from the stream, with compression nibble c
V4ReadOfNibble(c) ==
  /\ V4ReadDone
  /\ rd.size - prePos >= 11
  /\ preOff + 1 <= Len(file)
  /\ file[preOff + 1] \div 16 = c

(***************************************************************************)
(* C23.  A V4 read of an entry with compression nibble 1, encrypted or     *)
(* not, whatever it returns, leaves the inflater (decompressor, total_in,  *)
(* total_out) as it was and does not call it; a V4 read changes or calls   *)
(* the inflater only when the entry's compression nibble is 2.             *)
(***************************************************************************)
C23_InflaterUntouched ==
  /\ V4ReadOfNibble(1)
       => rd.inflater = before.rd.inflater /\ Len(fed) = before.fed
  /\ (V4ReadDone /\ (rd.inflater # before.rd.inflater \/ Len(fed) # before.fed))
       => V4ReadOfNibble(2)

C23_Witness ==
  /\ V4ReadOfNibble(1)
  /\ file[preOff + 1] = 18
  /\ nreads = 2
  /\ res.kind = "Success"
  /\ before.rd.inflater.total_in = 3
  /\ before.rd.inflater.decompressor.window = <<97, 98>>
  /\ rd.inflater = before.rd.inflater

\* decompress was called, on an inflater of its own
DecompressCalled == phase = "called" /\ gen.fn = "decompress"

\* the call before the last one returned Ok and left a tail of its input
\* unconsumed
C24_TailLeft ==
  /\ DecompressCalled /\ nreads >= 2
  /\ fed[nreads - 1].ok
  /\ fed[nreads - 1].consumed < Len(fed[nreads - 1].in)

\* what the last call is for the library when its input is s
C24_CallOn(s) == Flate2Decompress(before.rd.inflater.decompressor, s, Len(out))

(***************************************************************************)
(* C24.  As stated: when a call of decompress returned Ok and left a tail  *)
(* of its input unconsumed, the next call continues the stream from the    *)
(* first unconsumed byte: it inflates that tail and then its own input.    *)
(***************************************************************************)
C24_AsStated ==
  C24_TailLeft
    => /\ rd.inflater.decompressor
            = C24_CallOn(Drop(fed[nreads - 1].in, fed[nreads - 1].consumed)
                         \o fed[nreads].in).d
       /\ out = CopyInto(before.out,
                         C24_CallOn(Drop(fed[nreads - 1].in, fed[nreads - 1].consumed)
                                    \o fed[nreads].in).produced)

(***************************************************************************)
(* C24, amended.  decompress returns Ok(produced) also when it consumed    *)
(* less than its input, and the unconsumed tail is then dropped: the next  *)
(* call inflates its own input from its first byte, with the window and    *)
(* the rest of a copy that the calls before left.  In every call           *)
(* consumed <= in.len and produced <= out.len; total_in and total_out      *)
(* grow by consumed and produced when the call returns Ok and keep their   *)
(* values when it fails.                                                   *)
(***************************************************************************)
C24_TailDropped ==
  DecompressCalled
    => /\ fed[nreads].ok = (res.kind = "Ok")
       /\ fed[nreads].consumed <= Len(fed[nreads].in)
       /\ rd.inflater.decompressor = C24_CallOn(fed[nreads].in).d
       /\ out = CopyInto(before.out, C24_CallOn(fed[nreads].in).produced)
       /\ res.kind = "Ok"
            => /\ res.val <= Len(out)
               /\ res.val = Len(C24_CallOn(fed[nreads].in).produced)
               /\ rd.inflater.total_in = before.rd.inflater.total_in + fed[nreads].consumed
               /\ rd.inflater.total_out = before.rd.inflater.total_out + res.val
       /\ res.kind # "Ok"
            => /\ rd.inflater.total_in = before.rd.inflater.total_in
               /\ rd.inflater.total_out = before.rd.inflater.total_out
       /\ rd.inflater.total_in = SumConsumed(fed)

C24_Witness ==
  /\ C24_TailLeft
  /\ nreads = 2
  /\ Len(out) = 2
  /\ fed[1].in = <<97, 98, 99>> /\ fed[1].consumed = 2
  /\ fed[2].in = <<FlushTok + 1, 99>>
  /\ res = [kind |-> "Ok", val |-> 2]
  /\ out = <<98, 99>>
  /\ rd.inflater.total_in = 4

\* open came to the header mode byte of a V3 file
V3HeaderModeRead ==
  /\ phase # "init"
  /\ Len(file) >= 6
  /\ Take(file, 4) = MAGIC_NUMBER
  /\ file[5] = GLOG_RECOVERY_VERSION

(***************************************************************************)
(* C25.  V3 read_remain_header decodes the header mode byte as: high       *)
(* nibble 0 None, 1 Zlib, anything else IllegalCompressMode(high nibble);  *)
(* low nibble 0 None, 1 Aes, anything else IllegalEncryptMode(low          *)
(* nibble).  The compression nibble is checked first, and either error     *)
(* makes open fail: no reader is returned and nothing is read.             *)
(***************************************************************************)
C25_HeaderMode ==
  V3HeaderModeRead
    => /\ file[6] \div 16 \notin {0, 1}
            => /\ phase = "failed"
               /\ res = ErrOf("IllegalCompressMode", file[6] \div 16)
               /\ nreads = 0
       /\ (file[6] \div 16 \in {0, 1} /\ file[6] % 16 \notin {0, 1})
            => /\ phase = "failed"
               /\ res = ErrOf("IllegalEncryptMode", file[6] % 16)
               /\ nreads = 0
       /\ (file[6] \div 16 \in {0, 1} /\ file[6] % 16 \in {0, 1})
            => res.err \notin {"IllegalCompressMode", "IllegalEncryptMode"}
       /\ phase = "open"
            => /\ rd.compress_mode = (IF file[6] \div 16 = 0 THEN "None" ELSE "Zlib")
               /\ rd.encrypt_mode = (IF file[6] % 16 = 0 THEN "None" ELSE "Aes")

C25_Witness ==
  /\ V3HeaderModeRead
  /\ file[6] = 34
  /\ phase = "failed"
  /\ res = ErrOf("IllegalCompressMode", 2)

\* open returned a reader and read was not called yet
HeaderRead == phase = "open" /\ nreads = 0

\* the length of the proto name, as the header of the file has it
ProtoNameLen == IF file[5] = GLOG_RECOVERY_VERSION THEN LenAt(6) ELSE LenAt(5)

(***************************************************************************)
(* C26.  After a successful read_remain_header, position is the length of  *)
(* the header, 16 + proto_name_len for V3 and 15 + proto_name_len for V4,  *)
(* and that is the number of bytes taken from the file so far.             *)
(***************************************************************************)
C26_HeaderPosition ==
  HeaderRead
    => /\ rd.position = (IF rd.version = GLOG_RECOVERY_VERSION THEN 16 ELSE 15) + ProtoNameLen
       /\ ProtoNameLen = gen.nameLen
       /\ off = rd.position
       /\ space_left(rd) = Len(file) - off

C26_Witness ==
  /\ HeaderRead
  /\ rd.version = GLOG_RECOVERY_VERSION
  /\ ProtoNameLen = MaxNameLen
  /\ rd.position = 16 + MaxNameLen
  /\ off = 16 + MaxNameLen
  /\ Len(file) > off

\* open came to the sync marker of the header: magic, version, key and
\* mode byte are in order, and the file holds the header in full
HeaderSyncRead ==
  /\ phase # "init"
  /\ Len(file) >= 8
  /\ Take(file, 4) = MAGIC_NUMBER
  /\ file[5] \in {GLOG_RECOVERY_VERSION, GLOG_CIPHER_VERSION}
  /\ file[5] = GLOG_RECOVERY_VERSION => (file[6] \div 16 \in {0, 1} /\ file[6] % 16 \in {0, 1})
  /\ file[5] = GLOG_CIPHER_VERSION => key \notin BadKeys
  /\ Len(file) >= C2_HeaderLen

(***************************************************************************)
(* C27.  If the 8 bytes that follow the proto name in the header are not   *)
(* byte for byte the sync marker, read_remain_header (V3 and V4) fails     *)
(* with SyncMarkerMismatch and open returns that error: no reader is       *)
(* handed to the caller.  open fails with SyncMarkerMismatch in no other   *)
(* case.                                                                   *)
(***************************************************************************)
C27_HeaderSync ==
  /\ (HeaderSyncRead /\ SubSeq(file, C2_HeaderLen - 7, C2_HeaderLen) # SYNC_MARKER)
       => /\ phase = "failed"
          /\ res = Err("SyncMarkerMismatch")
          /\ nreads = 0
  /\ (phase = "failed" /\ res = Err("SyncMarkerMismatch"))
       => /\ HeaderSyncRead
          /\ SubSeq(file, C2_HeaderLen - 7, C2_HeaderLen) # SYNC_MARKER
          /\ ~gen.hdrSyncOk

C27_Witness ==
  /\ HeaderSyncRead
  /\ file[5] = GLOG_CIPHER_VERSION
  /\ SubSeq(file, C2_HeaderLen - 7, C2_HeaderLen - 1) = Take(SYNC_MARKER, 7)
  /\ file[C2_HeaderLen] # SYNC_MARKER[8]
  /\ Len(file) > C2_HeaderLen
  /\ phase = "failed"
  /\ res = Err("SyncMarkerMismatch")

\* read_safely was called, on its own
ReadSafelyCalled == phase = "done" /\ gen.fn = "read_safely"

(***************************************************************************)
(* C28.  As stated: read_safely(input, n, out) returns Ok(n) only with     *)
(* out[0..n] filled with the next n bytes of the stream, however the       *)
(* stream cuts its reads; if the stream ends after got < n bytes it fails  *)
(* with UnexpectedEof{expected: n, available: got}, and out is then as it  *)
(* was before the call.                                                    *)
(***************************************************************************)
C28_AsStated ==
  ReadSafelyCalled
    => IF Len(file) - preOff >= gen.value
       THEN /\ res = [kind |-> "Ok", val |-> gen.value]
            /\ Take(out, gen.value) = SubSeq(file, preOff + 1, preOff + gen.value)
            /\ off = preOff + gen.value
       ELSE /\ res = UnexpectedEof(gen.value, Len(file) - preOff)
            /\ out = before.out

\* the last read called the inflater, and the inflater failed
InflaterFailed ==
  /\ phase = "open" /\ nreads >= 1
  /\ Len(fed) = before.fed + 1
  /\ ~fed[Len(fed)].ok

\* entry i of the file has a payload the inflater rejects, the entries
\* before it are sound and were read into an out buffer that holds them
BadPayloadAt(i) ==
  /\ phase = "open" /\ Whole(gen) /\ KeyFits /\ OutHolds
  /\ i <= Len(gen.entries)
  /\ gen.entries[i].defect = "tok"
  /\ IsZlib(gen, gen.entries[i])
  /\ \A j \in 1..(i - 1) : gen.entries[j].defect = "none"

(***************************************************************************)
(* C29.  When the inflater reports a malformed stream for a compressed     *)
(* entry, read (V3 and V4) fails with the error DecompressError, not with  *)
(* NeedRecover; the stream then stands right after the payload, position   *)
(* has advanced by as much as the stream, and the sync marker that         *)
(* follows is unread.  read fails with DecompressError in no other case.   *)
(***************************************************************************)
C29_DecompressError ==
  /\ InflaterFailed
       => /\ res = Err("DecompressError")
          /\ off = C5_PayloadEnd
          /\ rd.position - prePos = off - preOff
          /\ lastSync = <<>>
  /\ (phase = "open" /\ res = Err("DecompressError")) => InflaterFailed
  /\ (nreads >= 1 /\ BadPayloadAt(nreads))
       => /\ InflaterFailed
          /\ SubSeq(file, off + 1, off + 8) = SYNC_MARKER

C29_Witness ==
  /\ BadPayloadAt(2) /\ nreads = 2
  /\ InflaterFailed
  /\ rd.version = GLOG_CIPHER_VERSION
  /\ file[preOff + 1] = 34
  /\ res = Err("DecompressError")
  /\ off + 8 = Len(file)

(***************************************************************************)
(* Log (proto.rs).  Log::decode is prost's decoder of the message: fields  *)
(* 1, 3, 4 are int32, fields 2, 5, 6, 7 strings, any other field is        *)
(* skipped.  A string is a sequence of bytes.                              *)
(***************************************************************************)

\* Log::default
Log_default ==
  [log_type |-> 0, timestamp |-> <<>>, log_level |-> 0, pid |-> 0,
   tid |-> <<>>, tag |-> <<>>, msg |-> <<>>]

\* the field of a tag
Log_field(tag) ==
  <<"log_type", "timestamp", "log_level", "pid", "tid", "tag", "msg">>[tag]

\* Err(DecodeError)
DecodeError == [ok |-> FALSE, log |-> Log_default]

\* the low 32 bits, as an i32, of a varint after byte k (from 0) gave the
\* 7 bits b
VarintAdd(acc, b, k) ==
  IF k <= 3 THEN acc + b * <<1, 128, 16384, 2097152>>[k + 1]
  ELSE IF k = 4
  THEN (acc + (b % 8) * 268435456) + (IF (b \div 8) % 2 = 1 THEN -2147483647 - 1 ELSE 0)
  ELSE acc

\* whether these 7 bits set a bit above the low 32
VarintHigh(b, k) ==
  IF k <= 3 THEN FALSE ELSE IF k = 4 THEN b \div 16 > 0 ELSE b > 0

\* prost::encoding::decode_varint from index i of buf: at most 10 bytes,
\* the tenth no more than 1
RECURSIVE decode_varint(_, _, _, _, _)
decode_varint(buf, i, k, acc, big) ==
  IF i > Len(buf) \/ (k = 9 /\ buf[i] > 1)
  THEN [ok |-> FALSE, val |-> 0, big |-> FALSE, next |-> i]
  ELSE IF buf[i] < 128
  THEN [ok |-> TRUE, val |-> VarintAdd(acc, buf[i], k),
        big |-> big \/ VarintHigh(buf[i], k), next |-> i + 1]
  ELSE decode_varint(buf, i + 1, k + 1, VarintAdd(acc, buf[i] - 128, k),
                     big \/ VarintHigh(buf[i] - 128, k))

\* the tag of a key that fits 32 bits: key >> 3
KeyTag(val) ==
  IF val >= 0 THEN val \div 8 ELSE 268435456 + ((val + 2147483647 + 1) \div 8)

\* core::str::from_utf8(s).is_ok(), from index i of s
RECURSIVE IsUtf8(_, _)
IsUtf8(s, i) ==
  IF i > Len(s) THEN TRUE
  ELSE IF s[i] < 128 THEN IsUtf8(s, i + 1)
  ELSE IF s[i] \in 194..223
  THEN i + 1 <= Len(s) /\ s[i + 1] \in 128..191 /\ IsUtf8(s, i + 2)
  ELSE IF s[i] \in 224..239
  THEN /\ i + 2 <= Len(s)
       /\ s[i + 1] \in (IF s[i] = 224 THEN 160..191 ELSE IF s[i] = 237 THEN 128..159
                        ELSE 128..191)
       /\ s[i + 2] \in 128..191
       /\ IsUtf8(s, i + 3)
  ELSE IF s[i] \in 240..244
  THEN /\ i + 3 <= Len(s)
       /\ s[i + 1] \in (IF s[i] = 240 THEN 144..191 ELSE IF s[i] = 244 THEN 128..143
                        ELSE 128..191)
       /\ s[i + 2] \in 128..191
       /\ s[i + 3] \in 128..191
       /\ IsUtf8(s, i + 4)
  ELSE FALSE

\* the end of a skipped field
Skip(ok, next) == [ok |-> ok, next |-> next]

\* skip_field: n more bytes from index i on
SkipBytes(buf, i, n) == Skip(i + n - 1 <= Len(buf), i + n)

\* skip_field, wire type LengthDelimited, from the length on
SkipDelimited(buf, len) ==
  IF ~len.ok \/ len.big \/ len.val < 0 THEN Skip(FALSE, len.next)
  ELSE SkipBytes(buf, len.next, len.val)

RECURSIVE skip_field(_, _, _, _, _)
RECURSIVE SkipGroup(_, _, _, _)
RECURSIVE SkipNext(_, _, _, _)

\* prost::encoding::skip_field from index i of buf, for a field of tag
\* tag and wire type wt, at depth depth of groups
skip_field(buf, i, wt, tag, depth) ==
  IF depth >= 100 THEN Skip(FALSE, i)
  ELSE IF wt = 0 THEN Skip(decode_varint(buf, i, 0, 0, FALSE).ok,
                           decode_varint(buf, i, 0, 0, FALSE).next)
  ELSE IF wt = 1 THEN SkipBytes(buf, i, 8)
  ELSE IF wt = 2 THEN SkipDelimited(buf, decode_varint(buf, i, 0, 0, FALSE))
  ELSE IF wt = 3 THEN SkipGroup(buf, decode_varint(buf, i, 0, 0, FALSE), tag, depth)
  ELSE IF wt = 5 THEN SkipBytes(buf, i, 4)
  ELSE Skip(FALSE, i)

\* the loop of skip_field over the fields of a group, from their key on
SkipGroup(buf, k, tag, depth) ==
  IF ~k.ok \/ k.big \/ k.val % 8 > 5 \/ KeyTag(k.val) = 0 THEN Skip(FALSE, k.next)
  ELSE IF k.val % 8 = 4 THEN Skip(KeyTag(k.val) = tag, k.next)
  ELSE SkipNext(buf, skip_field(buf, k.next, k.val % 8, KeyTag(k.val), depth + 1),
                tag, depth)

SkipNext(buf, inner, tag, depth) ==
  IF ~inner.ok THEN inner
  ELSE SkipGroup(buf, decode_varint(buf, inner.next, 0, 0, FALSE), tag, depth)

RECURSIVE Log_merge(_, _, _)
RECURSIVE MergeKey(_, _, _)
RECURSIVE MergeField(_, _, _, _, _)
RECURSIVE MergeInt32(_, _, _, _)
RECURSIVE MergeString(_, _, _, _)
RECURSIVE MergeSkipped(_, _, _)

\* Message::merge: fields as long as the buffer has bytes left
Log_merge(buf, i, log) ==
  IF i > Len(buf) THEN [ok |-> TRUE, log |-> log]
  ELSE MergeKey(buf, log, decode_varint(buf, i, 0, 0, FALSE))

\* decode_key: a key of 32 bits, a wire type of 0..5, a tag that is not 0
MergeKey(buf, log, k) ==
  IF ~k.ok \/ k.big \/ k.val % 8 > 5 \/ KeyTag(k.val) = 0 THEN DecodeError
  ELSE MergeField(buf, log, KeyTag(k.val), k.val % 8, k.next)

\* Log::merge_field
MergeField(buf, log, tag, wt, i) ==
  IF tag \in {1, 3, 4}
  THEN IF wt # 0 THEN DecodeError
       ELSE MergeInt32(buf, log, tag, decode_varint(buf, i, 0, 0, FALSE))
  ELSE IF tag \in {2, 5, 6, 7}
  THEN IF wt # 2 THEN DecodeError
       ELSE MergeString(buf, log, tag, decode_varint(buf, i, 0, 0, FALSE))
  ELSE MergeSkipped(buf, log, skip_field(buf, i, wt, tag, 0))

\* int32::merge: the varint as i32
MergeInt32(buf, log, tag, v) ==
  IF ~v.ok THEN DecodeError
  ELSE Log_merge(buf, v.next, [log EXCEPT ![Log_field(tag)] = v.val])

\* string::merge: the bytes, which have to be UTF-8
MergeString(buf, log, tag, len) ==
  IF ~len.ok \/ len.big \/ len.val < 0 \/ len.next + len.val - 1 > Len(buf)
  THEN DecodeError
  ELSE IF ~IsUtf8(SubSeq(buf, len.next, len.next + len.val - 1), 1) THEN DecodeError
  ELSE Log_merge(buf, len.next + len.val,
                 [log EXCEPT ![Log_field(tag)] = SubSeq(buf, len.next, len.next + len.val - 1)])

MergeSkipped(buf, log, skipped) ==
  IF ~skipped.ok THEN DecodeError ELSE Log_merge(buf, skipped.next, log)

\* Log::decode_from
Log_decode_from(buf) == Log_merge(buf, 1, Log_default)

\* str::parse::<i64> succeeds and DateTime::from_timestamp_millis gives a
\* date: an optional sign and decimal digits.  (Up to 15 digits here; of
\* the longer strings some still give a date.)
IsMillis(ts) ==
  /\ Len(ts) >= 1
  /\ ts[1] \in {43, 45} \cup 48..57
  /\ ts[1] \in {43, 45} => Len(ts) >= 2
  /\ \A i \in 2..Len(ts) : ts[i] \in 48..57
  /\ Len(ts) - (IF ts[1] \in {43, 45} THEN 1 ELSE 0) <= 15

\* Log::formatted_timestamp: the date of the timestamp in local time, or
\* the timestamp as it is
Log_formatted_timestamp(log) ==
  IF IsMillis(log.timestamp) THEN <<"local", log.timestamp>> ELSE <<"raw", log.timestamp>>

\* Log::format: "{} [{}] [{}] {{{}:{}}} {}", the six values
Log_format(log) ==
  <<Log_formatted_timestamp(log), Level_from_i32(log.log_level), log.tag,
    log.pid, log.tid, log.msg>>

(***************************************************************************)
(* read_logs (main.rs): the file is opened with the server's key, then     *)
(* read in a loop into a buffer of 16384 bytes.  One step is one turn of   *)
(* the loop.  After the loop the process exits.                            *)
(***************************************************************************)

\* GlogReader::single_log_max_length
single_log_max_length == SINGLE_LOG_CONTENT_MAX_LENGTH

\* types.is_empty() || types.contains(&log_type)
TypeWanted(types, log_type) ==
  types = <<>> \/ \E i \in 1..Len(types) : types[i] = log_type

\* Fault: a record that does not decode is counted.
Recorded_counted(l, len, d) ==
  IF len = 0 THEN l
  ELSE IF ~d.ok THEN [l EXCEPT !.decoded = @ + 1, !.log_count = @ + 1]
  ELSE IF ~TypeWanted(l.types, d.log.log_type)
  THEN [l EXCEPT !.decoded = @ + 1]
  ELSE [l EXCEPT !.decoded = @ + 1,
                 !.written = Append(@, Log_format(d.log)),
                 !.log_count = @ + 1]

\* Fault: a record of no bytes is decoded like any other.
Recorded_empty(l, len, d) ==
  IF ~d.ok \/ ~TypeWanted(l.types, d.log.log_type)
  THEN [l EXCEPT !.decoded = @ + 1]
  ELSE [l EXCEPT !.decoded = @ + 1,
                 !.written = Append(@, Log_format(d.log)),
                 !.log_count = @ + 1]

\* the arm Ok(ReadResult::Success(len)) of the loop; d is what decode_from
\* makes of buf[..len]
Recorded(l, len, d) ==
  IF len = 0 THEN l
  ELSE IF ~d.ok \/ ~TypeWanted(l.types, d.log.log_type)
  THEN [l EXCEPT !.decoded = @ + 1]
  ELSE [l EXCEPT !.decoded = @ + 1,
                 !.written = Append(@, Log_format(d.log)),
                 !.log_count = @ + 1]

\* Fault: the loop ends at every NeedRecover.
Matched_break(o) ==
  /\ logs' = IF o.res.kind = "Success"
             THEN Recorded(logs, o.res.n, Log_decode_from(Take(o.out, o.res.n)))
             ELSE logs
  /\ phase' = IF o.res.kind \in {"Eof", "Err", "NeedRecover"} THEN "exited" ELSE "open"

\* the match on what read returned: the record, and whether the loop goes
\* on
Matched(o) ==
  /\ logs' = IF o.res.kind = "Success"
             THEN Recorded(logs, o.res.n, Log_decode_from(Take(o.out, o.res.n)))
             ELSE logs
  /\ phase' = IF o.res.kind \in {"Eof", "Err"} \/ o.res = NeedRecover(-1)
              THEN "exited" ELSE "open"

\* what a turn of the loop leaves behind
Looped(o) == Returned(o) /\ Matched(o)

\* the head of read_logs: open_with_key(file, Some(SVR_PRIV_KEY))
LogsOpen ==
  /\ phase = "init"
  /\ Opened(open_internal(file, key))
  /\ preOff' = off
  /\ prePos' = rd.position
  /\ before' = Before(rd, out, fed, logs)
  /\ UNCHANGED <<gen, file, key, out, nreads, fed, lastSync, logs, main>>

\* one turn of the loop: reader.read(&mut buf) and the match on the result
LogsLoop ==
  /\ phase = "open"
  /\ nreads < MaxLoops
  /\ Looped(GlogReader_read(rd, file, off, out))
  /\ nreads' = nreads + 1
  /\ preOff' = off
  /\ prePos' = rd.position
  /\ before' = Before(rd, out, fed, logs)
  /\ UNCHANGED <<gen, file, key, main>>

\* records: two that decode, of types 1 and 2, and one that does not
LogA == <<8, 1, 58, 1, 109>>

LogB == <<8, 2, 24, 4, 50, 1, 116>>

NotLog == <<97, 98>>

LogEntry(ms, j, text) == [Entry(ms, j, PubOf(j), "none") EXCEPT !.text = text]

\* the entries of the files read_logs is run on; a compressed entry may be
\* an empty block, and an entry may have a defect: a client key off the
\* curve, a bad token, a length of 0, a flipped sync marker, a mode byte
\* with an illegal nibble
LogEntries(version, hdrMode, j) ==
  IF version = GLOG_RECOVERY_VERSION
  THEN {LogEntry(0, j, t) : t \in {LogA, LogB, NotLog} \cup (IF hdrMode = 16 THEN {<<>>} ELSE {})}
       \cup {Entry(0, j, PubOf(j), d) : d \in {"len0", "sync1"}}
  ELSE {LogEntry(ms, j, t) : ms \in {17, 33, 34}, t \in {LogA, LogB, NotLog}}
       \cup {LogEntry(ms, j, <<>>) : ms \in {33, 34}}
       \cup {Entry(ms, j, PubOf(j), "none") : ms \in {33, 34}}
       \cup {Entry(34, j, PubOff, "pub"), Entry(18, j, PubOff, "pub"),
             Entry(33, j, PubOf(j), "tok")}
       \cup {Entry(ms, j, PubOf(j), "len0") : ms \in {17, 18}}
       \cup {Entry(17, j, PubOf(j), "sync1")}
       \cup {Entry(ms, j, PubOf(j), "mode") : ms \in {1, 19}}

LogLists(version, hdrMode) ==
  {<<>>}
  \cup {<<e>> : e \in LogEntries(version, hdrMode, 1)}
  \cup {<<e1, e2>> : e1 \in LogEntries(version, hdrMode, 1),
                     e2 \in LogEntries(version, hdrMode, 2)}

LogGens ==
  UNION {{Gen(MAGIC_NUMBER, GLOG_RECOVERY_VERSION, hm, 0, TRUE, es, 0) :
            es \in LogLists(GLOG_RECOVERY_VERSION, hm)} : hm \in {0, 16}}
  \cup
  {Gen(MAGIC_NUMBER, GLOG_CIPHER_VERSION, 0, 0, TRUE, es, 0) :
     es \in LogLists(GLOG_CIPHER_VERSION, 0)}
  \cup
  {Gen(MAGIC_NUMBER, GLOG_CIPHER_VERSION, 0, 0, TRUE,
       <<LogEntry(34, 1, LogA), Entry(ms, 2, PubOff, "pub"), e>>, 0) :
     ms \in {18, 34}, e \in {LogEntry(17, 3, LogB), LogEntry(34, 3, LogB)}}
  \cup
  {Gen(MAGIC_NUMBER, 5, 0, 0, TRUE, <<>>, 0)}

\* the type filters of the command line: none, or type 1
LogTypes == {<<>>, <<1>>}

\* read_logs allocates single_log_max_length() bytes once; no entry of the
\* files above unpacks to more than LogBufLen bytes, and the bytes of the
\* buffer past them are never written, so that many are kept
LogsInit ==
  /\ LogBufLen <= single_log_max_length
  /\ \E g \in LogGens, types \in LogTypes :
       InitState(g, GoodKey, LogBufLen, LogsOf(types))

LogsNext == LogsOpen \/ LogsLoop

SpecLogs == LogsInit /\ [][LogsNext]_vars

\* ENABLED <<LogsNext>>_vars: open_with_key and read return on every input,
\* and each step changes phase or nreads
LogsNextEnabled == phase = "init" \/ (phase = "open" /\ nreads < MaxLoops)

\* read_logs is sequential code: a process that runs takes its next step.
\* This is weak fairness of LogsNext, with ENABLED <<LogsNext>>_vars
\* written out as LogsNextEnabled and every step of the specification being a
\* step of LogsNext.
LogsFairness == []<>~LogsNextEnabled \/ []<><<TRUE>>_vars

SpecLogsFair == SpecLogs /\ LogsFairness

(***************************************************************************)
(* C30.  When read returns Success(0), an entry that is an empty block of  *)
(* the deflate stream, the loop of read_logs neither decodes nor counts    *)
(* nor writes a record and goes on to call read again; the reader has      *)
(* treated the entry like any other: the inflater was fed its payload,     *)
(* the sync marker was checked and position advanced over the entry.       *)
(***************************************************************************)
C30_SkipEmpty ==
  (phase \in {"open", "exited"} /\ nreads >= 1 /\ res.kind = "Success")
    => /\ phase = "open"
       /\ res.n = 0
            => /\ logs = before.logs
               /\ Len(fed) = before.fed + 1 /\ fed[Len(fed)].ok
               /\ lastSync = SYNC_MARKER
               /\ off = C5_PayloadEnd + 8
               /\ rd.position - prePos = off - preOff
       /\ res.n # 0 => logs.decoded = before.logs.decoded + 1

C30_Witness ==
  /\ phase = "open" /\ nreads = 2
  /\ res = Success(0)
  /\ rd.version = GLOG_CIPHER_VERSION
  /\ file[preOff + 1] = 34
  /\ logs.types = <<>>
  /\ logs.log_count = 1 /\ logs.decoded = 1
  /\ logs.written = <<Log_format([Log_default EXCEPT !.log_type = 1, !.msg = <<109>>])>>

(***************************************************************************)
(* C31                                                                     *)
(***************************************************************************)

\* the last turn of the loop read an entry of n > 0 bytes that decode_from
\* rejects
C31_DecodeFailed ==
  /\ phase \in {"open", "exited"} /\ nreads >= 1
  /\ res.kind = "Success" /\ res.n > 0
  /\ ~Log_decode_from(Take(out, res.n)).ok

\* C31: when decode_from fails on an entry that read returned with Success,
\* read_logs writes nothing and leaves log_count as it was, the loop goes on
\* to the next read of the same reader, and the reader, its stream and the
\* buffer are as read left them.
C31_SkipRecord ==
  C31_DecodeFailed
    => /\ phase = "open"
       /\ logs.written = before.logs.written
       /\ logs.log_count = before.logs.log_count
       /\ logs.types = before.logs.types
       /\ logs.decoded = before.logs.decoded + 1
       /\ rd = GlogReader_read(before.rd, file, preOff, before.out).rd
       /\ off = GlogReader_read(before.rd, file, preOff, before.out).off
       /\ out = GlogReader_read(before.rd, file, preOff, before.out).out

\* the first entry of a V4 file, compressed and encrypted, is no protobuf
\* message; a record follows it in the file, and the loop is about to read it
C31_Witness ==
  /\ C31_DecodeFailed /\ phase = "open" /\ nreads = 1
  /\ rd.version = GLOG_CIPHER_VERSION
  /\ Len(gen.entries) = 2 /\ gen.entries[1].ms = 34
  /\ gen.entries[1].text = NotLog /\ gen.entries[2].text = LogA
  /\ Take(out, res.n) = NotLog
  /\ logs.decoded = 1 /\ logs.log_count = 0 /\ logs.written = <<>>

(***************************************************************************)
(* C33                                                                     *)
(***************************************************************************)

\* the last turn of the loop of read_logs got NeedRecover from read
RecoverReturned == nreads >= 1 /\ res.kind = "NeedRecover"

\* C33: read of a V3 reader returns NeedRecover with code -2 or -3 only,
\* read of a V4 reader with a code of -7..-2 only; the code is never -1,
\* so the loop of read_logs does not end at a NeedRecover: its next step is
\* another read.
C33_RecoverCodes ==
  /\ res.kind = "NeedRecover" => nreads >= 1
  /\ RecoverReturned
       => /\ rd.version = GLOG_RECOVERY_VERSION => res.code \in {-2, -3}
          /\ rd.version = GLOG_CIPHER_VERSION => res.code \in -7..-2
          /\ res.code # -1
          /\ phase = "open"

\* a V4 reader returned NeedRecover(-4) and the loop goes on
C33_Witness ==
  /\ RecoverReturned /\ phase = "open"
  /\ rd.version = GLOG_CIPHER_VERSION /\ res = NeedRecover(-4)
  /\ file[preOff + 1] = 18 /\ LenAt(preOff + 50) = 0

\* every code of the two readers
C33_Code(version, code) ==
  RecoverReturned /\ phase = "open" /\ rd.version = version /\ res = NeedRecover(code)

(***************************************************************************)
(* C34                                                                     *)
(***************************************************************************)

\* the last read returned NeedRecover for a sync marker mismatch
SyncRecover ==
  /\ RecoverReturned
  /\ res.code = IF rd.version = GLOG_RECOVERY_VERSION THEN -3 ELSE -7

\* the last read returned NeedRecover for a mode nibble, a length or a
\* decrypt failure
EarlyRecover == RecoverReturned /\ ~SyncRecover

\* C34: a read that returns NeedRecover for an illegal mode nibble, an
\* invalid length or a decrypt failure leaves the out buffer, the inflater
\* and the shared-key cache as they were and calls the inflater not at all;
\* a read that returns NeedRecover with out or the inflater changed returned
\* it for a sync marker mismatch.
C34_EarlyRecoverFrame ==
  /\ EarlyRecover
       => /\ out = before.out
          /\ rd.inflater = before.rd.inflater
          /\ rd.shared_key_cache = before.rd.shared_key_cache
          /\ Len(fed) = before.fed
  /\ (RecoverReturned /\ (out # before.out \/ rd.inflater # before.rd.inflater))
       => SyncRecover

\* the second entry of a V4 file, compressed and encrypted, has a client key
\* off the curve; the first entry left its text in out, its block in the
\* inflater and its key in the cache
C34_Witness ==
  /\ EarlyRecover /\ nreads = 2 /\ res = NeedRecover(-5)
  /\ file[preOff + 1] = 34
  /\ DOMAIN rd.shared_key_cache = {PubA}
  /\ rd.inflater.total_in > 0
  /\ Take(out, 2) = TextOf(1)

\* a sync marker mismatch after the entry was unpacked into out by the
\* inflater
C34_SyncAfterUnpack ==
  /\ SyncRecover /\ out # before.out /\ rd.inflater # before.rd.inflater
  /\ Len(fed) = before.fed + 1

(***************************************************************************)
(* C35                                                                     *)
(***************************************************************************)

\* the last read returned Eof
EofReturned == phase = "open" /\ nreads >= 1 /\ res = Eof

\* a step that ends in Eof leaves everything as it was
EofFrame ==
  EofReturned' => rd' = rd /\ off' = off /\ out' = out /\ fed' = fed

\* a read after a read that returned Eof returns Eof
EofAbsorbs == EofReturned => res' = Eof

\* C35: a read that returns Eof changes neither the reader (position,
\* inflater, key cache) nor the stream offset nor the out buffer, and every
\* read after it on the same reader returns Eof.
C35_EofAbsorbing == [][EofFrame /\ EofAbsorbs]_vars

\* the third read of a valid file of one compressed entry: the second read
\* returned Eof at the end of the file, and so did this one
C35_Witness ==
  /\ EofReturned /\ nreads = 3
  /\ Valid /\ Len(gen.entries) = 1 /\ IsZlib(gen, gen.entries[1])
  /\ rd.position = rd.size /\ off = Len(file)
  /\ rd.inflater.total_in > 0

\* Eof with bytes of the file unread: fewer than the smallest entry
C35_EofBeforeEnd == EofReturned /\ nreads >= 2 /\ off < Len(file)

(***************************************************************************)
(* C36                                                                     *)
(***************************************************************************)

\* the loop of read_logs goes on after the last read
LoopGoesOn == nreads >= 1 /\ res.kind \in {"Success", "NeedRecover"}

\* a read after which the loop goes on took at least one byte from the
\* stream
ReadConsumes == LoopGoesOn => off > preOff

\* a read that began with no byte left in the stream returned Eof or
\* UnexpectedEof
ExhaustedEnds ==
  (nreads >= 1 /\ preOff >= Len(file))
    => \/ res = Eof
       \/ res.kind = "Err" /\ res.err = "UnexpectedEof"

\* read_logs is over: open failed, or the loop was left
ReadLogsOver == phase \in {"failed", "exited"}

\* C36: the loop of read_logs ends on every file: a read after which the
\* loop goes on (Success, NeedRecover) has consumed at least one byte of the
\* stream, a read on an exhausted stream returns Eof or UnexpectedEof, both
\* of which end the loop, and so the loop is left after finitely many
\* turns.
C36_Terminates ==
  /\ [](ReadConsumes /\ ExhaustedEnds /\ (LoopGoesOn <=> phase = "open" /\ nreads >= 1))
  /\ <>ReadLogsOver

\* the loop was left on UnexpectedEof at the end of the stream, after turns
\* that returned NeedRecover had moved the stream and not the position
C36_Witness ==
  /\ phase = "exited" /\ nreads >= 10 /\ preOff = Len(file)
  /\ res.kind = "Err" /\ res.err = "UnexpectedEof"
  /\ space_left(rd) >= 1 + 2 + 8

(***************************************************************************)
(* C37                                                                     *)
(***************************************************************************)

\* a V4 reader has returned from n >= 1 reads
V4ReadReturned == phase = "open" /\ nreads >= 1 /\ rd.version = GLOG_CIPHER_VERSION

\* the cache after the last read holds all that it held before it
CacheKept ==
  /\ DOMAIN before.rd.shared_key_cache \subseteq DOMAIN rd.shared_key_cache
  /\ \A k \in DOMAIN before.rd.shared_key_cache :
       rd.shared_key_cache[k] = before.rd.shared_key_cache[k]

\* the keys of the cache are client keys on the curve, each with the
\* 32-byte secret of ECDH
CacheSound ==
  \A k \in DOMAIN rd.shared_key_cache :
    /\ ClientPubKeyOk(k)
    /\ Len(rd.shared_key_cache[k]) = 32
    /\ rd.shared_key_cache[k] = DiffieHellman(SvrPrivBytes, k)

\* the last read took an encrypted entry of a valid length up to the end
\* of its payload, and the client key was new to the cache and on the curve
DerivedFirst ==
  /\ preOff + 52 <= Len(file)
  /\ file[preOff + 1] % 16 = 2 /\ file[preOff + 1] \div 16 \in {1, 2}
  /\ LenAt(preOff + 50) \in 1..SINGLE_LOG_CONTENT_MAX_LENGTH
  /\ off >= preOff + 52 + LenAt(preOff + 50)
  /\ AesPub \notin DOMAIN before.rd.shared_key_cache
  /\ ClientPubKeyOk(AesPub)

\* the cache changes in a first derivation only, by the key derived
CacheByDerivation ==
  IF DerivedFirst
  THEN DOMAIN rd.shared_key_cache = DOMAIN before.rd.shared_key_cache \cup {AesPub}
  ELSE rd.shared_key_cache = before.rd.shared_key_cache

\* C37 as stated: a read that fails or returns NeedRecover never changes
\* the cache.
C37_AsStated ==
  (V4ReadReturned /\ res.kind \in {"Err", "NeedRecover"})
    => rd.shared_key_cache = before.rd.shared_key_cache

\* C37: the cache of a V4 reader is empty after open; a read keeps every
\* entry of it; its keys are client keys on the curve, each with the 32-byte
\* secret; a read changes it only by adding the key of the encrypted entry
\* it read, when that key was new and on the curve, whatever the read then
\* returns; a read of an entry that is not encrypted, a read that returns
\* Eof, NeedRecover(-2..-6) or CipherNotReady, leaves it as it was.
C37_CacheGrows ==
  /\ (phase = "open" /\ nreads = 0) => rd.shared_key_cache = EmptyCache
  /\ rd.version # GLOG_CIPHER_VERSION => rd.shared_key_cache = EmptyCache
  /\ V4ReadReturned
       => /\ CacheKept
          /\ CacheSound
          /\ CacheByDerivation
          /\ (\/ preOff < Len(file) /\ file[preOff + 1] % 16 # 2
              \/ res = Eof
              \/ res.kind = "NeedRecover" /\ res.code # -7
              \/ res = Err("CipherNotReady"))
               => rd.shared_key_cache = before.rd.shared_key_cache

\* the second entry of a V4 file is encrypted under a key of its own and its
\* sync marker is flipped: the read returned NeedRecover(-7) and the cache
\* has the second key
C37_Witness ==
  /\ V4ReadReturned /\ nreads = 2 /\ res = NeedRecover(-7)
  /\ DerivedFirst
  /\ DOMAIN before.rd.shared_key_cache = {PubA}
  /\ DOMAIN rd.shared_key_cache = {PubA, PubB}

\* a first derivation in a read that failed in the inflater
C37_DerivedThenFailed ==
  V4ReadReturned /\ DerivedFirst /\ res = Err("DecompressError")

(***************************************************************************)
(* C38                                                                     *)
(***************************************************************************)

\* the key arguments: none, the server's key, the malformed ones
AllKeys == {NoKey, GoodKey} \cup BadKeys

\* n reads, one after the other
RECURSIVE ReadsFrom(_, _, _)
ReadsFrom(f, o, n) ==
  IF n = 0 THEN o
  ELSE ReadsFrom(f, GlogReader_read(o.rd, f, o.off, o.out), n - 1)

\* what open left, followed by n reads into a buffer if it returned a reader
OpenedThenRead(f, o, n, buf) ==
  IF o.res.kind # "Ok" THEN Outcome(o.res, o.rd, o.off, buf, <<>>, <<>>)
  ELSE ReadsFrom(f, Outcome(o.res, o.rd, o.off, buf, <<>>, <<>>), n)

\* open_with_key(file, k) and n reads
RunWithKey(f, k, n, buf) == OpenedThenRead(f, open_internal(f, k), n, buf)

\* the file has the magic number and the version byte of V3
IsV3File == Len(file) >= 5 /\ Take(file, 4) = MAGIC_NUMBER /\ file[5] = GLOG_RECOVERY_VERSION

\* the run so far, made again with key k, ends in the same result, reader,
\* stream offset and buffer, after the same call of the inflater and the
\* same bytes taken as sync marker
SameWithKey(k) ==
  RunWithKey(file, k, nreads, Rep(0, Len(out)))
    = Outcome(res, rd, off, out, SubSeq(fed, before.fed + 1, Len(fed)), lastSync)

\* C38: on a V3 file open_with_key and every read after it return the same
\* and leave the same reader, whatever the key argument: none, a valid key,
\* a malformed one; open fails with the error of a malformed key on V4 files
\* only.
C38_KeyIgnored ==
  /\ (phase # "init" /\ IsV3File) => \A k \in AllKeys \ {key} : SameWithKey(k)
  /\ (phase = "failed" /\ res.kind = "Err" /\ res.err \in {"HexError", "EllipticCurveError"})
       => /\ key \in BadKeys
          /\ Len(file) >= 5 /\ file[5] = GLOG_CIPHER_VERSION

\* a V3 file opened with a key that is not hex, and its entry read
C38_Witness ==
  /\ IsV3File /\ phase = "open" /\ nreads = 1
  /\ key = Some(<<NotHex, 1>>)
  /\ res.kind = "Success" /\ res.n > 0
  /\ rd.svr_pri_key = None

\* the same key on a V4 file: open failed
C38_V4Fails ==
  /\ phase = "failed" /\ key = Some(<<NotHex, 1>>) /\ res = Err("HexError")
  /\ file[5] = GLOG_CIPHER_VERSION

(***************************************************************************)
(* C39                                                                     *)
(***************************************************************************)

\* entry i of the V4 file has a client key off the curve, the entries
\* before it are sound, and a sound entry follows it
PubRecoverAt(i) ==
  /\ gen.version = GLOG_CIPHER_VERSION
  /\ i + 1 <= Len(gen.entries)
  /\ gen.entries[i].defect = "pub"
  /\ gen.entries[i + 1].defect = "none"
  /\ \A j \in 1..(i - 1) : gen.entries[j].defect = "none"

\* the offset of the first byte after entry i in the file
EntryEnd(i) == Len(FileOf([gen EXCEPT !.entries = Take(@, i)]))

\* read i returned NeedRecover(-5) with the stream at the sync marker of
\* entry i, and each of the eight reads after it took one byte of the marker
\* and returned NeedRecover(-2), the position staying where it was
MarkerSkipped(i) ==
  /\ nreads = i => res = NeedRecover(-5) /\ off = EntryEnd(i) - 8
  /\ nreads \in (i + 1)..(i + 8)
       => /\ res = NeedRecover(-2)
          /\ off = preOff + 1
          /\ off = EntryEnd(i) - 8 + (nreads - i)
          /\ file[off] = SYNC_MARKER[nreads - i]
          /\ rd.position = prePos
          /\ phase = "open"
  /\ nreads = i + 9 => preOff = EntryEnd(i)

\* the last read unpacked entry j of the file into out
EntryDecoded(j) ==
  /\ res = Success(Len(gen.entries[j].text))
  /\ Take(out, res.n) = gen.entries[j].text
  /\ off = EntryEnd(j)

C39_Resynced ==
  /\ PubRecoverAt(2) /\ nreads = 11 /\ EntryDecoded(3)
  /\ logs.log_count = 2 /\ phase = "open"

(***************************************************************************)
(* main (main.rs): the files of the unpacked archive are collected, and    *)
(* read_logs is called on each.  A file of the directory is its name, its  *)
(* time of modification and the description of its bytes; the directory is *)
(* the sequence in which WalkDir yields its files.                         *)
(***************************************************************************)

\* the names: "async-YYYYMMDD.glog" with a date, "async-1.glog", a name that
\* ends in ".glogmmap", any other name
DirEntry(name, date, mtime, g) == [name |-> name, date |-> date, mtime |-> mtime, g |-> g]

\* the filter of get_glog_files: ends with ".glog", starts with "async-",
\* 18 characters or more
IsGlogName(e) == e.name = "async-date.glog"

\* the filter of get_mmap_files
IsMmapName(e) == e.name = "x.glogmmap"

\* slice::sort_by is stable: an element goes behind those that are not
\* greater
InsertByKey(sorted, e) ==
  Take(sorted, Cardinality({i \in 1..Len(sorted) : sorted[i].k <= e.k}))
  \o <<e>>
  \o Drop(sorted, Cardinality({i \in 1..Len(sorted) : sorted[i].k <= e.k}))

RECURSIVE SortedByKey(_, _, _)
SortedByKey(s, i, sorted) ==
  IF i > Len(s) THEN sorted
  ELSE SortedByKey(s, i + 1, InsertByKey(sorted, s[i]))

Unkeyed(s) == [i \in 1..Len(s) |-> s[i].e]

GlogKeyed(e) == [k |-> e.date, e |-> e]

MmapKeyed(e) == [k |-> 0 - e.mtime, e |-> e]

\* get_glog_files: by the date in the name, ascending
get_glog_files(dir) ==
  Unkeyed(SortedByKey([i \in 1..Len(SelectSeq(dir, IsGlogName)) |->
                         GlogKeyed(SelectSeq(dir, IsGlogName)[i])], 1, <<>>))

\* get_mmap_files: by the time of modification, descending
get_mmap_files(dir) ==
  Unkeyed(SortedByKey([i \in 1..Len(SelectSeq(dir, IsMmapName)) |->
                         MmapKeyed(SelectSeq(dir, IsMmapName)[i])], 1, <<>>))

\* log_files of main
log_files(dir) == get_glog_files(dir) \o get_mmap_files(dir)

\* read_logs returned to main: the next file
MainReturned(m) == [m EXCEPT !.next = @ + 1, !.called = Append(@, m.next)]

\* read_logs got its reader: its loop runs
MainReading(m) == [m EXCEPT !.called = Append(@, m.next), !.pc = "reading"]

\* read_logs after its loop: exit(0)
MainAfterLoop(m) == [m EXCEPT !.pc = "exited"]

\* the head of read_logs on file g of the list: open_with_key fails and
\* read_logs returns the error to main, or the buffer is allocated
ReadLogsOpened(g, o) ==
  /\ gen' = g
  /\ file' = FileOf(g)
  /\ Opened(o)
  /\ main' = IF o.res.kind = "Ok" THEN MainReading(main) ELSE MainReturned(main)
  /\ logs' = [logs EXCEPT !.log_count = 0, !.decoded = 0]
  /\ out' = Rep(0, LogBufLen)
  /\ nreads' = 0
  /\ fed' = <<>>
  /\ lastSync' = <<>>
  /\ preOff' = 0
  /\ prePos' = 0
  /\ before' = Before(V3_from_reader(0), Rep(0, LogBufLen), <<>>, logs)
  /\ UNCHANGED key

\* main: the body of the loop over log_files up to the reader of read_logs
MainReadLogs ==
  /\ main.pc = "loop"
  /\ main.next <= Len(main.files)
  /\ ReadLogsOpened(main.files[main.next].g,
                    open_internal(FileOf(main.files[main.next].g), key))

\* read_logs: one turn of its loop, and what follows the loop when the turn
\* leaves it
MainLoop ==
  /\ main.pc = "reading"
  /\ phase = "open"
  /\ nreads < MaxLoops
  /\ Looped(GlogReader_read(rd, file, off, out))
  /\ nreads' = nreads + 1
  /\ preOff' = off
  /\ prePos' = rd.position
  /\ before' = Before(rd, out, fed, logs)
  /\ main' = IF phase' = "exited" THEN MainAfterLoop(main) ELSE main
  /\ UNCHANGED <<gen, file, key>>

\* main after the loop over log_files: writer.flush()
MainFlush ==
  /\ main.pc = "loop"
  /\ main.next > Len(main.files)
  /\ main' = [main EXCEPT !.flushed = TRUE, !.pc = "done"]
  /\ UNCHANGED <<gen, file, key, phase, rd, off, out, res, nreads, fed, lastSync,
                 preOff, prePos, before, logs>>

\* files of the archive: a V3 file of one record, a file of a version no
\* reader takes, a V4 file of no entry
MainGens ==
  <<Gen(MAGIC_NUMBER, GLOG_RECOVERY_VERSION, 0, 0, TRUE, <<LogEntry(0, 1, LogA)>>, 0),
    Gen(MAGIC_NUMBER, 5, 0, 0, TRUE, <<>>, 0),
    Gen(MAGIC_NUMBER, GLOG_CIPHER_VERSION, 0, 0, TRUE, <<>>, 0)>>

DirEntries ==
  {DirEntry("async-date.glog", d, 0, MainGens[i]) : d \in 1..2, i \in 1..2}
  \cup {DirEntry("x.glogmmap", 0, t, MainGens[i]) : t \in 1..2, i \in 2..3}
  \cup {DirEntry(n, 0, 0, Gen(MAGIC_NUMBER, GLOG_RECOVERY_VERSION, 0, 0, TRUE, <<>>, 0)) :
          n \in {"async-1.glog", "other"}}

Dirs == UNION {[1..n -> DirEntries] : n \in 0..MaxFiles}

MainInit ==
  \E dir \in Dirs :
    InitAll(Gen(MAGIC_NUMBER, 0, 0, 0, TRUE, <<>>, 0), GoodKey, LogBufLen, NoLogs,
            MainOf(log_files(dir)))

MainNext == MainReadLogs \/ MainLoop \/ MainFlush

SpecMain == MainInit /\ [][MainNext]_vars

(***************************************************************************)
(* C32                                                                     *)
(***************************************************************************)

\* the list main works on: the files named async-YYYYMMDD.glog by date,
\* ascending, then the files named *.glogmmap by time of modification,
\* descending
FilesInOrder ==
  main.pc # "none"
    => \A i, j \in 1..Len(main.files) :
         i < j => /\ IsMmapName(main.files[i]) => IsMmapName(main.files[j])
                  /\ IsGlogName(main.files[i]) \/ IsMmapName(main.files[i])
                  /\ IsGlogName(main.files[j])
                       => main.files[i].date <= main.files[j].date
                  /\ IsMmapName(main.files[i])
                       => main.files[i].mtime >= main.files[j].mtime

\* C32: main calls read_logs once for every file of its list, in the order
\* of the list, going on to the next file whether the file succeeded or
\* failed, and flushes the writer only after the last; so when the process
\* is over every file was read and the writer was flushed.
C32_AsStated ==
  /\ main.pc \in {"done", "exited"}
       => /\ main.called = [i \in 1..Len(main.files) |-> i]
          /\ main.flushed
  /\ main.flushed => main.called = [i \in 1..Len(main.files) |-> i]

====
